---- MODULE Spec2Model ----
(***************************************************************************)
(* A model of the county property-tax parsers (package parsers):           *)
(*   - utils/db.py      transaction_scope and its thread-local counter      *)
(*   - base.py          BaseParser.transaction                              *)
(*   - govease.py, civicsource.py, clayton.py, cobbpdf.py  save / validate  *)
(*                      / parse / clean                                     *)
(*   - civicsource_dekalb.py  token authentication and refresh              *)
(*                                                                         *)
(* One thread runs the code (the counter of transaction_scope is            *)
(* thread-local).  A "call chain" starts when a with-block is entered with  *)
(* no block open and ends when the last open block has been left.           *)
(* The database connection is an external collaborator: each of its calls   *)
(* (commit, rollback, execute) either returns or raises.                    *)
(***************************************************************************)
EXTENDS Integers, Sequences, FiniteSets, TLC

VARIABLES
    count,      \* _transaction_local.count (utils/db.py)
    stack,      \* the with-blocks open in the thread, outermost first
    exc,        \* the exception in flight in the body of the innermost open
                \* block (with no block open: the one the chain's caller got)
    log,        \* history: the commit / rollback calls of the current chain
    chain,      \* history: what happened in the current chain
    lastExit,   \* history: the with-block left by the step just taken, if any
    lastSave,   \* history: the save called by the step just taken, if any
    faults,     \* number of block exits so far in which commit or rollback raised
    vParser,    \* the parser whose validate is called
    vRecord,    \* the record handed to validate
    vResult,    \* what validate returned or raised
    lParser,    \* the class of the parser instance that is parsed and cleaned with
    attrs,      \* its buffers: data_frame, gis_data, pdf_text, data
    auth_token, \* DeKalbCivicsourceParser.auth_token
    token_expiry, \* DeKalbCivicsourceParser.token_expiry
    headers,    \* session.headers["Authorization"]
    now,        \* datetime.now(), in hours
    call,       \* history: the call made by the step just taken, if any
    sourceRow,  \* the first row of the table that is parsed and validated
    parsed,     \* what parse made of sourceRow
    amount,     \* the value handed to validate_tax_amount
    accepted,   \* what validate_tax_amount returned
    formatArgs, \* the value and the pattern handed to validate_string_format
    formatResult \* what validate_string_format returned

txnVars == <<count, stack, exc, log, chain, lastExit, lastSave, faults>>
validateVars == <<vParser, vRecord, vResult>>

parserVars == <<lParser, attrs, auth_token, token_expiry, headers, now, call>>

roundTripVars == <<sourceRow, parsed>>

taxVars == <<amount, accepted>>

formatVars == <<formatArgs, formatResult>>

vars == <<txnVars, validateVars, parserVars, roundTripVars, taxVars, formatVars>>

----------------------------------------------------------------------------
(* Bounds of the model *)

MaxDepth == 3       \* with-blocks open at once
MaxEnters == 3      \* with-blocks entered in one call chain
MaxFaults == 1      \* block exits of one behaviour in which commit or rollback raises
MaxRecords == 2     \* records handed to GovEaseParser.save
MaxClock == 36      \* hours the clock runs for

----------------------------------------------------------------------------
(* Values *)

None == "none"

Conns == {"c1", "c2"}

\* exception types: ValueError stands for what a with-body raises itself,
\* CommitError / RollbackError / ExecuteError for what the database driver
\* raises out of commit / rollback / cursor.execute.
DatabaseError == "DatabaseError"

BodyExceptions == {"ValueError"}

RECURSIVE CountOp(_, _)
CountOp(events, op) ==
    IF events = <<>> THEN 0
    ELSE (IF Head(events).op = op THEN 1 ELSE 0) + CountOp(Tail(events), op)

Event(op, c, depth, ok) == [op |-> op, conn |-> c, depth |-> depth, ok |-> ok]

----------------------------------------------------------------------------
(* utils/db.py: transaction_scope *)

\* The except clause of transaction_scope (lines 87-91), entered with
\* counter cnt and exception e.
transaction_scope_except(cnt, c, depth, e, rollbackOk) ==
    LET cnt2 == cnt - 1 IN
    IF cnt2 = 0
    THEN [count  |-> cnt2,
          events |-> <<Event("rollback", c, depth, rollbackOk)>>,
          exc    |-> IF rollbackOk THEN e ELSE "RollbackError"]
    ELSE [count |-> cnt2, events |-> <<>>, exc |-> e]

\* Leaving a transaction_scope block (lines 82-91).  bodyExc is None when
\* the body completed.  The commit of line 86 is inside the try, so an
\* exception out of commit runs the except clause as well.
transaction_scope_exit(cnt, c, depth, bodyExc, commitOk, rollbackOk) ==
    IF bodyExc # None
    THEN transaction_scope_except(cnt, c, depth, bodyExc, rollbackOk)
    ELSE LET cnt1 == cnt - 1 IN
         IF cnt1 # 0
         THEN [count |-> cnt1, events |-> <<>>, exc |-> None]
         ELSE IF commitOk
              THEN [count  |-> cnt1,
                    events |-> <<Event("commit", c, depth, TRUE)>>,
                    exc    |-> None]
              ELSE LET r == transaction_scope_except(cnt1, c, depth,
                                                     "CommitError", rollbackOk)
                   IN [count  |-> r.count,
                       events |-> <<Event("commit", c, depth, FALSE)>> \o r.events,
                       exc    |-> r.exc]

----------------------------------------------------------------------------
(* base.py: BaseParser.transaction *)

\* Leaving a BaseParser.transaction block (lines 46-52).
transaction_exit_reraise(c, depth, bodyExc, commitOk, rollbackOk) ==
    LET tried == IF bodyExc = None
                 THEN <<Event("commit", c, depth, commitOk)>> ELSE <<>>
        e == IF bodyExc # None THEN bodyExc
             ELSE IF commitOk THEN None ELSE "CommitError"
    IN IF e = None
       THEN [events |-> tried, exc |-> None]
       ELSE [events |-> tried \o <<Event("rollback", c, depth, rollbackOk)>>,
             exc    |-> IF rollbackOk THEN e ELSE "RollbackError"]

\* Leaving a BaseParser.transaction block whose commit is after the try
\* statement: an exception out of commit reaches the caller as it is
transaction_exit_commit_after_try(c, depth, bodyExc, commitOk, rollbackOk) ==
    IF bodyExc = None
    THEN [events |-> <<Event("commit", c, depth, commitOk)>>,
          exc    |-> IF commitOk THEN None ELSE "CommitError"]
    ELSE [events |-> <<Event("rollback", c, depth, rollbackOk)>>,
          exc    |-> IF rollbackOk THEN DatabaseError ELSE "RollbackError"]

\* BaseParser.transaction up to the yield with no check of the connection
transaction_enter_unchecked(connection) == [entered |-> TRUE, exc |-> None]

\* BaseParser.transaction up to the yield (base.py 43-47): a parser without
\* a connection raises before the body runs
transaction_enter(connection) ==
    IF connection = None THEN [entered |-> FALSE, exc |-> DatabaseError]
    ELSE [entered |-> TRUE, exc |-> None]

transaction_exit(c, depth, bodyExc, commitOk, rollbackOk) ==
    LET tried == IF bodyExc = None
                 THEN <<Event("commit", c, depth, commitOk)>> ELSE <<>>
        e == IF bodyExc # None THEN bodyExc
             ELSE IF commitOk THEN None ELSE "CommitError"
    IN IF e = None
       THEN [events |-> tried, exc |-> None]
       ELSE [events |-> tried \o <<Event("rollback", c, depth, rollbackOk)>>,
             exc    |-> IF rollbackOk THEN DatabaseError ELSE "RollbackError"]

----------------------------------------------------------------------------
(* govease.py: GovEaseParser.save and its helpers.  The data handed to     *)
(* save is a list of records; urls[i] is the number of image URLs of the   *)
(* i-th one.  failStmt tells which statement of a record the driver        *)
(* rejects: 0 none, 1 the property insert, 1 + j the insert of URL j.      *)

Statement(table, i, j, ok) == [table |-> table, rec |-> i, url |-> j, ok |-> ok]

\* _save_image_urls (lines 167-176)
save_image_urls(i, m, failUrl) ==
    LET last == IF failUrl \in 1..m THEN failUrl ELSE m IN
    [executes |-> [j \in 1..last |->
                      Statement("property_images", i, j, j # failUrl)],
     exc      |-> IF failUrl \in 1..m THEN DatabaseError ELSE None]

\* _save_property with the image rows written before the property row
save_property_images_first(i, m, failStmt) ==
    LET u == save_image_urls(i, m, IF failStmt <= 1 THEN 0 ELSE failStmt - 1)
    IN IF u.exc # None
       THEN [executes |-> u.executes, exc |-> DatabaseError]
       ELSE [executes |-> u.executes
                          \o <<Statement("properties", i, 0, failStmt # 1)>>,
             exc      |-> IF failStmt = 1 THEN DatabaseError ELSE None]

\* _save_property (lines 135-165)
save_property(i, m, failStmt) ==
    IF failStmt = 1
    THEN [executes |-> <<Statement("properties", i, 0, FALSE)>>,
          exc      |-> DatabaseError]
    ELSE LET u == save_image_urls(i, m, IF failStmt = 0 THEN 0 ELSE failStmt - 1)
         IN [executes |-> <<Statement("properties", i, 0, TRUE)>> \o u.executes,
             exc      |-> IF u.exc # None THEN DatabaseError ELSE None]

\* the for loop of GovEaseParser.save (lines 126-127), from record i on
RECURSIVE GovEase_save_body(_, _, _, _)
GovEase_save_body(i, urls, failRec, failStmt) ==
    IF i > Len(urls)
    THEN [executes |-> <<>>, exc |-> None]
    ELSE LET p == save_property(i, urls[i], IF i = failRec THEN failStmt ELSE 0)
         IN IF p.exc # None
            THEN p
            ELSE LET rest == GovEase_save_body(i + 1, urls, failRec, failStmt)
                 IN [executes |-> p.executes \o rest.executes, exc |-> rest.exc]

\* The body of the save of a dict-based parser (civicsource.py 85-107,
\* clayton.py 57-76, cobbpdf.py 82-105): one INSERT; a failure is logged and
\* re-raised as it is.
dict_save_body(executeOk) ==
    [executes |-> <<Statement("properties", 1, 0, executeOk)>>,
     exc      |-> IF executeOk THEN None ELSE "ExecuteError"]

Parsers == {"GovEase", "Civicsource", "Clayton", "Cobb"}

\* the keys of the record that save subscripts (civicsource.py 96-102,
\* clayton.py 68-72, cobbpdf.py 92-97); DeKalbCivicsourceParser has the save
\* of CivicsourceParser
save_keys(parser) ==
    CASE parser \in {"Civicsource", "DeKalb"} ->
            <<"property_id", "address", "owner_name", "assessed_value",
              "tax_status", "coordinates">>
      [] parser = "Clayton" ->
            <<"parcel_id", "owner_name", "property_address", "market_value",
              "tax_year">>
      [] parser = "Cobb" ->
            <<"property_id", "location_address", "district", "land_lot",
              "tax_amount", "assessment_date">>

\* the body of save handed a record: the tuple of parameters is built
\* first, and a key that is not there raises KeyError before the INSERT
record_save_body(parser, data) ==
    LET keys == save_keys(parser)
        absent == \E i \in 1..Len(keys) : keys[i] \notin DOMAIN data
    IN IF absent THEN [executes |-> <<>>, exc |-> "KeyError"]
       ELSE IF parser \in {"Civicsource", "DeKalb"}
       THEN LET coords == data["coordinates"] IN
            IF coords.t # "dict" THEN [executes |-> <<>>, exc |-> "TypeError"]
            ELSE IF {"lat", "lon"} \subseteq DOMAIN coords.v
            THEN dict_save_body(TRUE)
            ELSE [executes |-> <<>>, exc |-> "KeyError"]
       ELSE dict_save_body(TRUE)

\* the lists of records GovEaseParser.save is given: each record comes
\* without image URLs or with two of them
ImageCounts == {0, 2}

UrlLists == UNION {[1..n -> ImageCounts] : n \in 0..MaxRecords}

----------------------------------------------------------------------------
(* Python values.  A string is the sequence of its characters; a float is  *)
(* written as the integer it equals; latitudes and longitudes are counted  *)
(* in tenths of a degree (DeKalb's bounds 33.5 and -84.4 are 335 and -844).*)

NoneV == [t |-> "NoneType"]
Str(s) == [t |-> "str", v |-> s]
IntV(n) == [t |-> "int", v |-> n]
FloatV(n) == [t |-> "float", v |-> n]
Dict(f) == [t |-> "dict", v |-> f]

\* a key the dict does not hold
Missing == [t |-> "missing"]

MkDict(a) == [f \in {g \in DOMAIN a : a[g] # Missing} |-> a[f]]

\* dict.get(key): None for a key that is not there
Get(d, f) == IF f \in DOMAIN d THEN d[f] ELSE NoneV

\* dict.get(key, 0)
GetOrZero(d, f) == IF f \in DOMAIN d THEN d[f] ELSE IntV(0)

IsNumber(x) == x.t \in {"int", "float"}

\* bool(x)
Truthy(x) ==
    CASE x.t = "NoneType" -> FALSE
      [] x.t = "str" -> x.v # <<>>
      [] x.t = "dict" -> DOMAIN x.v # {}
      [] OTHER -> x.v # 0

Digit == {"0", "1", "2", "3", "4", "5", "6", "7", "8", "9"}
Upper == {"A", "B", "C", "D", "E", "F", "G", "H", "I", "J", "K", "L", "M",
          "N", "O", "P", "Q", "R", "S", "T", "U", "V", "W", "X", "Y", "Z"}
Dash == {"-"}

RECURSIVE Rep(_, _)
Rep(cls, n) == IF n = 0 THEN <<>> ELSE <<cls>> \o Rep(cls, n - 1)

RECURSIVE DigitsValue(_)
DigitsValue(s) ==
    IF s = <<>> THEN 0
    ELSE 10 * DigitsValue(SubSeq(s, 1, Len(s) - 1))
         + (CHOOSE d \in 0..9 : ToString(d) = s[Len(s)])

AllDigits(s) == s # <<>> /\ \A i \in 1..Len(s) : s[i] \in Digit

\* float(x) / int(x): the number, or the exception the conversion raises
ToNumber(x) ==
    CASE IsNumber(x) -> [ok |-> TRUE, v |-> x.v]
      [] x.t = "str" /\ AllDigits(x.v) -> [ok |-> TRUE, v |-> DigitsValue(x.v)]
      [] x.t = "str" -> [ok |-> FALSE, exc |-> "ValueError"]
      [] OTHER -> [ok |-> FALSE, exc |-> "TypeError"]

----------------------------------------------------------------------------
(* utils/validation.py *)

\* re.match(pattern, value) for the patterns of the parsers: one character
\* class per position, anchored at the start by ^ and, where the pattern
\* ends with $, at the end of the string or before its final newline.
re_match(pattern, value) ==
    /\ Len(value) >= Len(pattern.classes)
    /\ \A i \in 1..Len(pattern.classes) : value[i] \in pattern.classes[i]
    /\ pattern.dollar =>
           SubSeq(value, Len(pattern.classes) + 1, Len(value)) \in {<<>>, <<"\n">>}

Pattern(classes) == [classes |-> classes, dollar |-> TRUE]

\* validate_string_format (lines 10-12)
validate_string_format(value, pattern) == re_match(pattern, value)

\* validate_numeric_range (lines 22-24)
validate_numeric_range(value, min_val, max_val) ==
    min_val <= value /\ value <= max_val

\* validate_required_fields (lines 26-28)
validate_required_fields_present(data, required_fields) ==
    \A i \in 1..Len(required_fields) : required_fields[i] \in DOMAIN data

validate_required_fields(data, required_fields) ==
    \A i \in 1..Len(required_fields) : Truthy(Get(data, required_fields[i]))

\* validate_dekalb_id (lines 66-75): ^\d{6}-\d{2}$
validate_dekalb_id(value) ==
    re_match(Pattern(Rep(Digit, 6) \o <<Dash>> \o Rep(Digit, 2)), value)

MAX_TAX_AMOUNT == 10000000

\* validate_tax_amount (lines 54-64)
validate_tax_amount(x) ==
    x.t \in {"float", "Decimal"} /\ 0 < x.v /\ x.v < MAX_TAX_AMOUNT

IsLeap(y) == (y % 4 = 0 /\ y % 100 # 0) \/ y % 400 = 0

DaysIn(y, m) ==
    CASE m \in {4, 6, 9, 11} -> 30
      [] m = 2 -> IF IsLeap(y) THEN 29 ELSE 28
      [] OTHER -> 31

\* datetime.strptime(value, "%Y-%m-%d") succeeds: four digits of year, one
\* or two of month and of day, a date of the calendar
strptime_ok(value) ==
    \E i, j \in 1..Len(value) :
        /\ i = 5 /\ j \in {i + 2, i + 3} /\ Len(value) - j \in {1, 2}
        /\ value[i] = "-" /\ value[j] = "-"
        /\ AllDigits(SubSeq(value, 1, i - 1))
        /\ AllDigits(SubSeq(value, i + 1, j - 1))
        /\ AllDigits(SubSeq(value, j + 1, Len(value)))
        /\ LET y == DigitsValue(SubSeq(value, 1, i - 1))
               m == DigitsValue(SubSeq(value, i + 1, j - 1))
               d == DigitsValue(SubSeq(value, j + 1, Len(value)))
           IN y >= 1 /\ m \in 1..12 /\ d \in 1..DaysIn(y, m)

\* validate_date_format (lines 14-20), format "%Y-%m-%d"
validate_date_format(value) == strptime_ok(value)

----------------------------------------------------------------------------
(* validate of the dict-based parsers.  The result is True or the          *)
(* exception raised, with its message.                                     *)

NotCalled == [res |-> None]
True == [res |-> "True"]
ValidationError(msg) == [res |-> "ValidationError", msg |-> msg]

Civicsource_REQUIRED_FIELDS ==
    <<"property_id", "address", "owner_name", "assessed_value", "tax_status",
      "coordinates">>

DeKalb_REQUIRED_FIELDS ==
    <<"tax_id", "address", "owner_name", "assessed_value", "tax_status",
      "coordinates", "property_class", "total_due", "sale_date">>

Clayton_REQUIRED_FIELDS ==
    <<"parcel_id", "owner_name", "property_address", "market_value", "tax_year">>

Cobb_REQUIRED_FIELDS ==
    <<"property_id", "location_address", "district", "land_lot", "tax_amount",
      "assessment_date">>

REQUIRED_FIELDS(parser) ==
    CASE parser = "Civicsource" -> Civicsource_REQUIRED_FIELDS
      [] parser = "DeKalb" -> DeKalb_REQUIRED_FIELDS
      [] parser = "Clayton" -> Clayton_REQUIRED_FIELDS
      [] parser = "Cobb" -> Cobb_REQUIRED_FIELDS

\* the ranges the parsers declare (civicsource.py 63-75, clayton.py 36-49,
\* civicsource_dekalb.py 120-121)
MinAssessedValue == 0
MaxAssessedValue == 1000000000
MinLat == -900
MaxLat == 900
MinLon == -1800
MaxLon == 1800
MinMarketValue == 0
MaxMarketValue == 100000000
MinTaxYear == 1900
MaxTaxYear == 2100
DeKalbMinLat == 335
DeKalbMaxLat == 340
DeKalbMinLon == -844
DeKalbMaxLon == -838

\* the check of a string field against a pattern, matched saying whether
\* the string matches: re.match raises TypeError for a value that is no
\* string, and validate turns it into a ValidationError
StringRule(x, matched, msg, rest) ==
    IF x.t # "str" THEN ValidationError("TypeError")
    ELSE IF ~matched THEN ValidationError(msg)
    ELSE rest

\* the check of float(x) or int(x) against a range
RangeRule(x, min_val, max_val, msg, rest) ==
    LET n == ToNumber(x) IN
    IF ~n.ok THEN ValidationError(n.exc)
    ELSE IF ~validate_numeric_range(n.v, min_val, max_val) THEN ValidationError(msg)
    ELSE rest

\* the check of data['coordinates'] (civicsource.py 71-77)
CoordinatesRule(coords, minLat, maxLat, minLon, maxLon, msg, rest) ==
    IF coords.t # "dict" THEN ValidationError(msg)
    ELSE LET lat == GetOrZero(coords.v, "lat")
             lon == GetOrZero(coords.v, "lon")
         IN IF ~IsNumber(lat) THEN ValidationError("TypeError")
            ELSE IF ~validate_numeric_range(lat.v, minLat, maxLat)
            THEN ValidationError(msg)
            ELSE IF ~IsNumber(lon) THEN ValidationError("TypeError")
            ELSE IF ~validate_numeric_range(lon.v, minLon, maxLon)
            THEN ValidationError(msg)
            ELSE rest

CivicsourceIdPattern == Pattern(Rep(Upper, 3) \o <<Dash>> \o Rep(Digit, 5))

\* CivicsourceParser.validate with the assessed value checked before the
\* property ID
Civicsource_validate_range_first(data) ==
    IF ~validate_required_fields(data, Civicsource_REQUIRED_FIELDS)
    THEN ValidationError("Missing required fields")
    ELSE
    RangeRule(data["assessed_value"], MinAssessedValue, MaxAssessedValue,
              "Invalid assessed value",
    StringRule(data["property_id"],
               validate_string_format(data["property_id"].v, CivicsourceIdPattern),
               "Invalid property ID format",
    CoordinatesRule(data["coordinates"], MinLat, MaxLat, MinLon, MaxLon,
                    "Invalid coordinates",
    True)))

\* CivicsourceParser.validate (civicsource.py 51-83)
Civicsource_validate(data) ==
    IF ~validate_required_fields(data, Civicsource_REQUIRED_FIELDS)
    THEN ValidationError("Missing required fields")
    ELSE
    StringRule(data["property_id"],
               validate_string_format(data["property_id"].v, CivicsourceIdPattern),
               "Invalid property ID format",
    RangeRule(data["assessed_value"], MinAssessedValue, MaxAssessedValue,
              "Invalid assessed value",
    CoordinatesRule(data["coordinates"], MinLat, MaxLat, MinLon, MaxLon,
                    "Invalid coordinates",
    True)))

DeKalbClassPattern == Pattern(<<Upper>> \o Rep(Digit, 2))

\* DeKalbCivicsourceParser.validate (civicsource_dekalb.py 87-141)
DeKalb_validate(data) ==
    IF ~validate_required_fields(data, DeKalb_REQUIRED_FIELDS)
    THEN ValidationError("Missing required fields")
    ELSE
    StringRule(data["tax_id"], validate_dekalb_id(data["tax_id"].v),
               "Invalid DeKalb County tax ID format",
    RangeRule(data["assessed_value"], MinAssessedValue, MaxAssessedValue,
              "Invalid assessed value",
    CoordinatesRule(data["coordinates"], DeKalbMinLat, DeKalbMaxLat,
                    DeKalbMinLon, DeKalbMaxLon,
                    "Invalid coordinates for DeKalb County",
    StringRule(data["property_class"],
               validate_string_format(data["property_class"].v, DeKalbClassPattern),
               "Invalid property class format",
    IF ~validate_tax_amount(data["total_due"])
    THEN ValidationError("Invalid total due amount")
    ELSE
    StringRule(data["sale_date"], validate_date_format(data["sale_date"].v),
               "Invalid sale date format",
    True)))))

ClaytonIdPattern ==
    Pattern(Rep(Digit, 2) \o <<Dash>> \o Rep(Digit, 3) \o <<Dash>> \o Rep(Digit, 3))

\* ClaytonBaseParser.validate (clayton.py 25-55)
Clayton_validate(data) ==
    IF ~validate_required_fields(data, Clayton_REQUIRED_FIELDS)
    THEN ValidationError("Missing required fields")
    ELSE
    StringRule(data["parcel_id"],
               validate_string_format(data["parcel_id"].v, ClaytonIdPattern),
               "Invalid parcel ID format",
    RangeRule(data["market_value"], MinMarketValue, MaxMarketValue,
              "Invalid market value",
    RangeRule(data["tax_year"], MinTaxYear, MaxTaxYear, "Invalid tax year",
    True)))

CobbIdPattern ==
    Pattern(Rep(Digit, 2) \o <<Dash>> \o Rep(Digit, 4) \o <<Dash>>
            \o Rep(Digit, 2) \o <<Dash>> \o Rep(Digit, 3))

\* CobbPDFParser.validate (cobbpdf.py 51-80)
Cobb_validate(data) ==
    LET missing == {i \in 1..Len(Cobb_REQUIRED_FIELDS) :
                        ~Truthy(Get(data, Cobb_REQUIRED_FIELDS[i]))}
    IN
    IF missing # {}
    THEN ValidationError("Missing required field: " \o
             Cobb_REQUIRED_FIELDS[CHOOSE i \in missing : \A j \in missing : i <= j])
    ELSE
    StringRule(data["property_id"], re_match(CobbIdPattern, data["property_id"].v),
               "Invalid property ID format",
    IF ~IsNumber(data["tax_amount"]) \/ data["tax_amount"].v < 0
    THEN ValidationError("Invalid tax amount")
    ELSE
    StringRule(data["assessment_date"], strptime_ok(data["assessment_date"].v),
               "Invalid date format",
    True))

validate(parser, data) ==
    CASE parser = "Civicsource" -> Civicsource_validate(data)
      [] parser = "DeKalb" -> DeKalb_validate(data)
      [] parser = "Clayton" -> Clayton_validate(data)
      [] parser = "Cobb" -> Cobb_validate(data)

----------------------------------------------------------------------------
(* The records validate is tried on: every combination of these values of  *)
(* the fields, a field being left out where Missing is chosen.             *)

AnId == <<"A", "B", "C", "-", "1", "2", "3", "4", "5">>
WrongId == <<"1", "2", "3", "-", "4", "5", "-", "6", "7", "8">>
ClaytonId == <<"1", "2", "-", "3", "4", "5", "-", "6", "7", "8">>
CobbId == <<"1", "2", "-", "3", "4", "5", "6", "-", "7", "8", "-", "9", "0", "1">>
DeKalbId == <<"1", "2", "3", "4", "5", "6", "-", "7", "8">>
DeKalbTestId == <<"1", "5", "-", "1", "2", "3", "-", "0", "4", "-", "0", "0", "5">>
ADate == <<"2", "0", "2", "3", "-", "0", "6", "-", "1", "5">>
WrongDate == <<"0", "6", "/", "1", "5", "/", "2", "0", "2", "3">>
Text == <<"x">>

Lats == {Missing, IntV(MinLat - 1), IntV(MinLat), IntV(MaxLat), IntV(MaxLat + 1)}
Lons == {Missing, IntV(MinLon - 1), IntV(MinLon), IntV(MaxLon), IntV(MaxLon + 1)}

CivicsourceRecords ==
    {MkDict(a) : a \in
        [property_id : {Missing, NoneV, Str(<<>>), Str(AnId), Str(WrongId)},
         address : {Missing, NoneV, Str(<<>>), Str(Text)},
         owner_name : {Str(<<>>), Str(Text)},
         assessed_value : {Missing, FloatV(MinAssessedValue - 1),
                           FloatV(MinAssessedValue), FloatV(1),
                           FloatV(MaxAssessedValue), FloatV(MaxAssessedValue + 1),
                           Str(Text)},
         tax_status : {Missing, Str(Text)},
         coordinates : {Missing, NoneV} \cup
                       {Dict(MkDict(c)) : c \in [lat : Lats, lon : Lons]}]}

ClaytonRecords ==
    {MkDict(a) : a \in
        [parcel_id : {Missing, Str(<<>>), Str(ClaytonId), Str(WrongId)},
         owner_name : {Missing, Str(<<>>), Str(Text)},
         property_address : {NoneV, Str(Text)},
         market_value : {Missing, FloatV(MinMarketValue - 1), FloatV(MinMarketValue),
                         FloatV(1), FloatV(MaxMarketValue),
                         FloatV(MaxMarketValue + 1), Str(Text)},
         tax_year : {Missing, IntV(0), IntV(MinTaxYear - 1), IntV(MinTaxYear),
                     IntV(MaxTaxYear), IntV(MaxTaxYear + 1), Str(Text)}]}

CobbRecords ==
    {MkDict(a) : a \in
        [property_id : {Missing, Str(<<>>), Str(CobbId), Str(WrongId)},
         location_address : {Missing, NoneV, Str(Text)},
         district : {Missing, Str(<<"1", "6">>)},
         land_lot : {Str(<<>>), Str(<<"1", "2", "3", "4">>)},
         tax_amount : {Missing, FloatV(-100), FloatV(0), FloatV(1234), Str(Text)},
         assessment_date : {Missing, Str(<<>>), Str(ADate), Str(WrongDate)}]}

DeKalbRecords ==
    {MkDict(a) : a \in
        [tax_id : {Missing, Str(DeKalbId), Str(DeKalbTestId)},
         address : {Missing, Str(Text)},
         owner_name : {Str(<<>>), Str(Text)},
         assessed_value : {Missing, FloatV(MinAssessedValue), FloatV(250000)},
         tax_status : {Missing, Str(Text)},
         coordinates : {Missing, Dict(<<>>),
                        Dict(MkDict([lat |-> IntV(337), lon |-> IntV(-843)])),
                        Dict(MkDict([lat |-> IntV(320), lon |-> IntV(-810)]))},
         property_class : {Missing, Str(<<"R", "0", "3">>), Str(<<"R", "3">>)},
         total_due : {Missing, FloatV(3500), IntV(3500), FloatV(-500)},
         sale_date : {Missing, Str(ADate), Str(WrongDate)}]}

DictParsers == {"Civicsource", "DeKalb", "Clayton", "Cobb"}

Records(parser) ==
    CASE parser = "Civicsource" -> CivicsourceRecords
      [] parser = "DeKalb" -> DeKalbRecords
      [] parser = "Clayton" -> ClaytonRecords
      [] parser = "Cobb" -> CobbRecords

ValidateIdle == vParser = None /\ vRecord = <<>> /\ vResult = NotCalled

ValidateInit ==
    /\ vParser \in DictParsers
    /\ vRecord \in Records(vParser)
    /\ vResult = NotCalled

\* parser.validate(record)
Validate ==
    /\ vParser # None
    /\ vResult = NotCalled
    /\ vResult' = validate(vParser, vRecord)
    /\ UNCHANGED <<vParser, vRecord>>

----------------------------------------------------------------------------
(* DeKalbCivicsourceParser: the bearer-token session                       *)
(* (civicsource_dekalb.py).  Time is counted in hours.                     *)

\* timedelta(hours=24)
TokenLifetime == 24

\* the hours the clock advances by in one step
ClockStep == 12

\* the tokens the server hands out; "" is a token that is falsy
Tokens == {"", "t1", "t2"}

\* what session.post, raise_for_status and json() come to: a JSON body with
\* a token, a body without one (auth_data["token"] raises KeyError), or a
\* requests.exceptions.RequestException (no connection, an HTTP error)
Responses ==
    {[kind |-> "ok", token |-> t] : t \in Tokens}
    \cup {[kind |-> "no_token"], [kind |-> "request_error"]}

AuthenticationError == "AuthenticationError"

Bearer(token) == "Bearer " \o token

\* a datetime, h hours after the parser was constructed
Datetime(h) == [t |-> "datetime", v |-> h]

SessionState(token, expiry, authorization) ==
    [auth_token |-> token, token_expiry |-> expiry, Authorization |-> authorization]

\* the body of the try with no update of the headers of the session
accept_token_without_header(s, t, resp, endpoint) ==
    CASE resp.kind = "ok" ->
            [s |-> SessionState(resp.token, Datetime(t + TokenLifetime),
                                 s.Authorization),
             result |-> "True", requests |-> <<endpoint>>, authenticates |-> 0]
      [] resp.kind = "no_token" ->
            [s |-> s, result |-> "KeyError", requests |-> <<endpoint>>,
             authenticates |-> 0]
      [] resp.kind = "request_error" ->
            [s |-> s, result |-> "RequestException", requests |-> <<endpoint>>,
             authenticates |-> 0]

\* the body of the try of authenticate and of refresh_session, after the
\* request was sent (lines 58-67 and 154-163)
accept_token(s, t, resp, endpoint) ==
    CASE resp.kind = "ok" ->
            [s |-> SessionState(resp.token, Datetime(t + TokenLifetime),
                                 Bearer(resp.token)),
             result |-> "True", requests |-> <<endpoint>>, authenticates |-> 0]
      [] resp.kind = "no_token" ->
            [s |-> s, result |-> "KeyError", requests |-> <<endpoint>>,
             authenticates |-> 0]
      [] resp.kind = "request_error" ->
            [s |-> s, result |-> "RequestException", requests |-> <<endpoint>>,
             authenticates |-> 0]

\* authenticate (lines 48-71)
authenticate(s, t, resp) ==
    LET r == accept_token(s, t, resp, "auth/login") IN
    [r EXCEPT !.result = IF @ = "RequestException" THEN AuthenticationError ELSE @,
              !.authenticates = 1]

\* not self.auth_token or not self.token_expiry (line 145)
NoToken(s) == s.auth_token \in {None, ""} \/ s.token_expiry = NoneV

\* datetime.now() >= self.token_expiry (line 148)
Expired(s, t) == t >= s.token_expiry.v

\* refresh_session that asks for a new token whenever it holds one, expired
\* or not
refresh_session_eager(s, t, resps) ==
    IF NoToken(s) THEN authenticate(s, t, resps[1])
    ELSE LET same == [kind |-> "ok", token |-> s.auth_token]
         IN accept_token(s, t, IF resps = <<>> THEN same ELSE resps[1],
                         "auth/refresh")

\* refresh_session as the test test_session_refresh_needed takes it to be:
\* an expired token is replaced by a full login
refresh_session_relogin(s, t, resps) ==
    IF NoToken(s) \/ Expired(s, t)
    THEN authenticate(s, t, resps[1])
    ELSE [s |-> s, result |-> "True", requests |-> <<>>, authenticates |-> 0]

\* refresh_session with a fallback login that is tried again when it fails
refresh_session_retrying(s, t, resps) ==
    IF NoToken(s) THEN authenticate(s, t, resps[1])
    ELSE IF Expired(s, t)
    THEN LET r == accept_token(s, t, resps[1], "auth/refresh") IN
         IF r.result = "RequestException"
         THEN LET a == authenticate(s, t, resps[2]) IN
              IF a.result = AuthenticationError
              THEN [a EXCEPT !.requests = r.requests \o @ \o @,
                             !.authenticates = 2]
              ELSE [a EXCEPT !.requests = r.requests \o @]
         ELSE r
    ELSE [s |-> s, result |-> "True", requests |-> <<>>, authenticates |-> 0]

\* refresh_session (lines 143-169); resps are the answers to the requests
\* it sends, in order
refresh_session(s, t, resps) ==
    IF NoToken(s) THEN authenticate(s, t, resps[1])
    ELSE IF Expired(s, t)
    THEN LET r == accept_token(s, t, resps[1], "auth/refresh") IN
         IF r.result = "RequestException"
         THEN LET a == authenticate(s, t, resps[2]) IN
              [a EXCEPT !.requests = r.requests \o @]
         ELSE r
    ELSE [s |-> s, result |-> "True", requests |-> <<>>, authenticates |-> 0]

----------------------------------------------------------------------------
(* parse and clean: the buffers a parser instance holds                    *)

\* an instance attribute removed by del
Deleted == "<deleted>"

\* the files a path can name: two well-formed ones, one without rows (or
\* text), one that lacks the columns (or labels) the parser reads, one the
\* reader rejects as ill-formed, one that is not there
Files == {"a", "b", "empty", "malformed", "syntax", "absent"}

\* the rows of the tables and the features of the layers: "a" is a file of
\* one row, "b" one of three, as property_list.csv of the tests
RowCount(file) ==
    CASE file = "a" -> 1
      [] file = "b" -> 3
      [] file = "malformed" -> 1
      [] OTHER -> 0

\* pd.read_excel, pd.read_csv, gpd.read_file, pdfplumber.open, extract_text:
\* the content read, or the exception raised
read(file, formatError) ==
    CASE file = "absent" -> [ok |-> FALSE, exc |-> "FileNotFoundError"]
      [] file = "syntax" -> [ok |-> FALSE, exc |-> formatError]
      [] OTHER -> [ok |-> TRUE, content |-> file]

\* reading with a path that is no string
read_value(x, formatError) ==
    IF x.t = "str" THEN read(x.v, formatError)
    ELSE [ok |-> FALSE, exc |-> "TypeError"]

DataFormatError == [res |-> "DataFormatError"]
Raised(e) == [res |-> e]
Returned == [res |-> "None"]
Record(from, content) == [res |-> "record", from |-> from, row |-> content]

Outcome(a, result) == [attrs |-> a, result |-> result]

\* CivicsourceParser._transform_data (civicsource.py 116-155): the first row
\* of the table, or of the GIS layer when there is no table
Civicsource_transform_data(a) ==
    CASE a.data_frame = Deleted -> Raised("AttributeError")
      [] a.data_frame # None ->
            IF a.data_frame = "empty" THEN Raised("IndexError")
            ELSE Record("data_frame", a.data_frame)
      [] a.gis_data = Deleted -> Raised("AttributeError")
      [] a.gis_data # None ->
            CASE a.gis_data = "empty" -> Raised("IndexError")
              [] a.gis_data = "malformed" -> Raised("AttributeError")
              [] OTHER -> Record("gis_data", a.gis_data)
      [] OTHER -> DataFormatError

\* a path, named by the file it leads to
Path(file) == [t |-> "str", v |-> file]

\* isinstance(x, (str, Path))
IsPath(x) == x.t = "str"

\* the source parse reads (civicsource.py 35-40): the first of the three
\* paths that the dict holds
Civicsource_source(d) ==
    CASE IsPath(Get(d, "excel_path")) -> "excel_path"
      [] IsPath(Get(d, "csv_path")) -> "csv_path"
      [] IsPath(Get(d, "gis_path")) -> "gis_path"
      [] OTHER -> None

\* CivicsourceParser.parse (civicsource.py 32-49)
Civicsource_parse(a, data) ==
    IF data.t # "dict" THEN Outcome(a, DataFormatError)
    ELSE
    LET d == data.v
        key == Civicsource_source(d)
    IN IF key = None THEN Outcome(a, DataFormatError)
       ELSE LET r == read(d[key].v, "ParserError")
                attr == IF key = "gis_path" THEN "gis_data" ELSE "data_frame"
            IN IF ~r.ok THEN Outcome(a, DataFormatError)
               ELSE LET a2 == [a EXCEPT ![attr] = r.content]
                        t == Civicsource_transform_data(a2)
                    IN Outcome(a2, IF t.res = "record" THEN t ELSE DataFormatError)

\* CivicsourceParser.clean (civicsource.py 109-114)
Civicsource_clean(a) ==
    IF a.data_frame = Deleted THEN Outcome(a, Raised("AttributeError"))
    ELSE LET a2 == IF a.data_frame # None THEN [a EXCEPT !.data_frame = Deleted]
                   ELSE a
         IN IF a2.gis_data = Deleted THEN Outcome(a2, Raised("AttributeError"))
            ELSE IF a2.gis_data # None
            THEN Outcome([a2 EXCEPT !.gis_data = Deleted], Returned)
            ELSE Outcome(a2, Returned)

\* suffixes of the paths handed to GovEaseParser.parse
Suffixes == {".csv", ".xls", ".xlsx", ".txt"}

FilePath(suffix, file) == [t |-> "str", suffix |-> suffix, v |-> file]
DataFrame(content) == [t |-> "DataFrame", v |-> content]

\* GovEaseParser.parse (govease.py 46-84)
GovEase_parse(a, data) ==
    LET loaded ==
            CASE data.t = "str" ->
                    IF data.suffix \in {".csv", ".xls", ".xlsx"}
                    THEN read(data.v, "ParserError")
                    ELSE [ok |-> FALSE, exc |-> "DataFormatError"]
              [] data.t = "DataFrame" -> [ok |-> TRUE, content |-> data.v]
              [] OTHER -> [ok |-> FALSE, exc |-> "DataFormatError"]
    IN IF ~loaded.ok THEN Outcome(a, DataFormatError)
       ELSE LET a2 == [a EXCEPT !.data_frame = loaded.content] IN
            CASE loaded.content = "malformed" -> Outcome(a2, DataFormatError)
              [] loaded.content = "empty" ->
                    Outcome(a2, [res |-> "records", rows |-> <<>>])
              [] OTHER ->
                    Outcome(a2, [res |-> "records", rows |-> <<loaded.content>>])

\* GovEaseParser.clean (govease.py 129-133): del, then the attribute is set
\* to None again
GovEase_clean(a) ==
    IF a.data_frame = Deleted THEN Outcome(a, Raised("AttributeError"))
    ELSE IF a.data_frame # None
    THEN Outcome([a EXCEPT !.data_frame = None], Returned)
    ELSE Outcome(a, Returned)

\* ClaytonPDFParser.parse (clayton.py 85-126)
ClaytonPDF_parse(a, pdf_path) ==
    LET r == read_value(pdf_path, "PDFSyntaxError") IN
    IF ~r.ok THEN Outcome(a, DataFormatError)
    ELSE LET a2 == [a EXCEPT !.pdf_text = r.content] IN
         IF r.content \in {"empty", "malformed"} THEN Outcome(a2, DataFormatError)
         ELSE Outcome(a2, Record("pdf_text", r.content))

\* ClaytonPDFParser.clean (clayton.py 97-100)
ClaytonPDF_clean(a) ==
    IF a.pdf_text # None THEN Outcome([a EXCEPT !.pdf_text = None], Returned)
    ELSE Outcome(a, Returned)

\* ClaytonExcelParser.parse (clayton.py 135-156)
ClaytonExcel_parse(a, excel_path) ==
    LET r == read_value(excel_path, "ParserError") IN
    IF ~r.ok THEN Outcome(a, DataFormatError)
    ELSE LET a2 == [a EXCEPT !.data_frame = r.content] IN
         IF r.content \in {"empty", "malformed"} THEN Outcome(a2, DataFormatError)
         ELSE Outcome(a2, Record("data_frame", r.content))

\* ClaytonExcelParser.clean (clayton.py 158-161)
ClaytonExcel_clean(a) ==
    IF a.data_frame = Deleted THEN Outcome(a, Raised("AttributeError"))
    ELSE IF a.data_frame # None
    THEN Outcome([a EXCEPT !.data_frame = Deleted], Returned)
    ELSE Outcome(a, Returned)

EmptyData == "{}"

\* CobbPDFParser.parse (cobbpdf.py 27-49): of the exceptions of
\* extract_text only PDFSyntaxError becomes a DataFormatError
Cobb_parse(a, pdf_path) ==
    LET r == read_value(pdf_path, "PDFSyntaxError") IN
    IF ~r.ok
    THEN Outcome(a, IF r.exc = "PDFSyntaxError" THEN DataFormatError
                    ELSE Raised(r.exc))
    ELSE IF r.content \in {"empty", "malformed"} THEN Outcome(a, DataFormatError)
    ELSE Outcome([a EXCEPT !.data = r.content], Record("data", r.content))

\* CobbPDFParser.clean (cobbpdf.py 107-109)
Cobb_clean(a) == Outcome([a EXCEPT !.data = EmptyData], Returned)

ParserKinds ==
    {"Civicsource", "DeKalb", "ClaytonPDF", "ClaytonExcel", "GovEase", "Cobb"}

\* the buffers after __init__
NewAttrs(kind) ==
    CASE kind \in {"Civicsource", "DeKalb"} -> [data_frame |-> None, gis_data |-> None]
      [] kind = "ClaytonPDF" -> [pdf_text |-> None]
      [] kind \in {"ClaytonExcel", "GovEase"} -> [data_frame |-> None]
      [] kind = "Cobb" -> [data |-> EmptyData]

\* parse without the session of DeKalb
parse(kind, a, data) ==
    CASE kind \in {"Civicsource", "DeKalb"} -> Civicsource_parse(a, data)
      [] kind = "ClaytonPDF" -> ClaytonPDF_parse(a, data)
      [] kind = "ClaytonExcel" -> ClaytonExcel_parse(a, data)
      [] kind = "GovEase" -> GovEase_parse(a, data)
      [] kind = "Cobb" -> Cobb_parse(a, data)

\* the files one call of parse opens, in order: each parse has one reading
\* call and no loop around it
source_reads(kind, data) ==
    CASE kind \in {"Civicsource", "DeKalb"} ->
            IF data.t = "dict" /\ Civicsource_source(data.v) # None
            THEN <<data.v[Civicsource_source(data.v)].v>>
            ELSE <<>>
      [] kind = "GovEase" ->
            IF data.t = "str" /\ data.suffix \in {".csv", ".xls", ".xlsx"}
            THEN <<data.v>>
            ELSE <<>>
      [] OTHER -> IF data.t = "str" THEN <<data.v>> ELSE <<>>

\* what a call does to the world outside the parser, in order
SentRequest(endpoint) == [ev |-> "request", to |-> endpoint]
ReadFile(file) == [ev |-> "read", file |-> file]

RequestsOf(requests) == [i \in 1..Len(requests) |-> SentRequest(requests[i])]
ReadsOf(files) == [i \in 1..Len(files) |-> ReadFile(files[i])]

\* DeKalbCivicsourceParser.parse with the source parsed before the session
\* is looked at
DeKalb_parse_reading_first(s, t, resps, a, data) ==
    LET o == parse("DeKalb", a, data)
        r == refresh_session(s, t, resps)
    IN [s |-> r.s, attrs |-> o.attrs,
        result |-> IF r.result = "True" THEN o.result ELSE Raised(r.result),
        requests |-> r.requests, authenticates |-> r.authenticates,
        trace |-> ReadsOf(source_reads("DeKalb", data)) \o RequestsOf(r.requests)]

\* DeKalbCivicsourceParser.parse (civicsource_dekalb.py 171-175):
\* refresh_session, and CivicsourceParser.parse when it returned True
DeKalb_parse(s, t, resps, a, data) ==
    LET r == refresh_session(s, t, resps)
        o == IF r.result = "True" THEN parse("DeKalb", a, data)
             ELSE Outcome(a, Raised(r.result))
        reads == IF r.result = "True" THEN source_reads("DeKalb", data) ELSE <<>>
    IN [s |-> r.s, attrs |-> o.attrs, result |-> o.result,
        requests |-> r.requests, authenticates |-> r.authenticates,
        trace |-> RequestsOf(r.requests) \o ReadsOf(reads)]

\* clean; DeKalb's (civicsource_dekalb.py 177-181) closes the HTTP session
\* after CivicsourceParser.clean returned
clean(kind, a) ==
    CASE kind \in {"Civicsource", "DeKalb"} -> Civicsource_clean(a)
      [] kind = "ClaytonPDF" -> ClaytonPDF_clean(a)
      [] kind = "ClaytonExcel" -> ClaytonExcel_clean(a)
      [] kind = "GovEase" -> GovEase_clean(a)
      [] kind = "Cobb" -> Cobb_clean(a)


\* what parse is handed
PathsAndOthers == {NoneV, IntV(5)} \cup {Path(f) : f \in Files}

CivicsourceInputs ==
    {NoneV} \cup
    {Dict(MkDict(d)) : d \in
        [excel_path : {Missing, IntV(5), Path("a"), Path("b"), Path("empty")},
         csv_path : {Missing, Path("a"), Path("b"), Path("absent")},
         gis_path : {Missing, IntV(5), Path("a"), Path("b"), Path("malformed")}]}

GovEaseInputs ==
    {NoneV, IntV(5)}
    \cup {FilePath(x, f) : x \in Suffixes, f \in Files}
    \cup {DataFrame(c) : c \in Files \ {"syntax", "absent"}}

\* DeKalb's parse hands its input on to CivicsourceParser.parse
DeKalbInputs ==
    {NoneV} \cup
    {Dict(MkDict(d)) : d \in
        [excel_path : {Missing, Path("a")},
         csv_path : {Missing, Path("absent")},
         gis_path : {Missing, Path("b")}]}

Inputs(kind) ==
    CASE kind = "Civicsource" -> CivicsourceInputs
      [] kind = "DeKalb" -> DeKalbInputs
      [] kind = "GovEase" -> GovEaseInputs
      [] OTHER -> PathsAndOthers

----------------------------------------------------------------------------
(* One parser instance *)

NoCall == [op |-> None]

SessionNow == SessionState(auth_token, token_expiry, headers)

ParserIdle ==
    /\ lParser = None
    /\ attrs = <<>>
    /\ auth_token = None
    /\ token_expiry = NoneV
    /\ headers = None
    /\ now = 0
    /\ call = NoCall

\* __init__ of the parsers
ParserInit ==
    /\ lParser \in ParserKinds
    /\ attrs = NewAttrs(lParser)
    /\ auth_token = None
    /\ token_expiry = NoneV
    /\ headers = None
    /\ now = 0
    /\ call = NoCall

NoRequests == [requests |-> <<>>, authenticates |-> 0, trace |-> <<>>]

\* a call that reads files and sends nothing
Reading(files) == [NoRequests EXCEPT !.trace = ReadsOf(files)]

\* a call of the session that reads no file
Requesting(r) ==
    [requests |-> r.requests, authenticates |-> r.authenticates,
     trace |-> RequestsOf(r.requests)]

\* the answers the server gives to the requests of one refresh_session call:
\* none to a call that sends nothing, a second one only after a refresh
\* request that failed
Answers ==
    LET s == SessionNow IN
    IF NoToken(s) THEN {<<r>> : r \in Responses}
    ELSE IF Expired(s, now)
    THEN {<<r>> : r \in {x \in Responses : x.kind # "request_error"}}
         \cup {<<[kind |-> "request_error"], r>> : r \in Responses}
    ELSE {<<>>}

\* the record of a call: what it was handed, what it found, what it sent
\* and what it returned or raised
CallRecord(op, input, result, r, answers) ==
    [op |-> op, input |-> input, prevOp |-> call.op, attrsBefore |-> attrs,
     sessionBefore |-> SessionNow, at |-> now, result |-> result,
     requests |-> r.requests, authenticates |-> r.authenticates,
     trace |-> r.trace, answers |-> answers]

SetSession(s) ==
    /\ auth_token' = s.auth_token
    /\ token_expiry' = s.token_expiry
    /\ headers' = s.Authorization

IsDeKalb == lParser = "DeKalb"

\* parser.parse(data); DeKalb's (civicsource_dekalb.py 171-175) refreshes the
\* session first
Parse ==
    /\ lParser # None
    /\ \E data \in Inputs(lParser) :
         IF IsDeKalb
         THEN \E resps \in Answers :
                LET r == DeKalb_parse(SessionNow, now, resps, attrs, data)
                IN /\ SetSession(r.s)
                   /\ attrs' = r.attrs
                   /\ call' = CallRecord("parse", data, r.result, r, resps)
         ELSE LET o == parse(lParser, attrs, data)
              IN /\ attrs' = o.attrs
                 /\ call' = CallRecord("parse", data, o.result,
                                       Reading(source_reads(lParser, data)), <<>>)
                 /\ UNCHANGED <<auth_token, token_expiry, headers>>
    /\ UNCHANGED <<lParser, now>>

\* parser.clean()
Clean ==
    /\ lParser # None
    /\ LET o == clean(lParser, attrs)
       IN /\ attrs' = o.attrs
          /\ call' = CallRecord("clean", None, o.result, NoRequests, <<>>)
    /\ UNCHANGED <<lParser, auth_token, token_expiry, headers, now>>

\* parser.authenticate()
Authenticate ==
    /\ IsDeKalb
    /\ \E resp \in Responses :
         LET r == authenticate(SessionNow, now, resp)
         IN /\ SetSession(r.s)
            /\ call' = CallRecord("authenticate", None, Raised(r.result),
                                  Requesting(r), <<resp>>)
    /\ UNCHANGED <<lParser, attrs, now>>

\* parser.refresh_session()
RefreshSession ==
    /\ IsDeKalb
    /\ \E resps \in Answers :
         LET r == refresh_session(SessionNow, now, resps)
         IN /\ SetSession(r.s)
            /\ call' = CallRecord("refresh_session", None, Raised(r.result),
                                  Requesting(r), resps)
    /\ UNCHANGED <<lParser, attrs, now>>

\* time passes
Tick ==
    /\ IsDeKalb
    /\ now + ClockStep <= MaxClock
    /\ now' = now + ClockStep
    /\ call' = NoCall
    /\ UNCHANGED <<lParser, attrs, auth_token, token_expiry, headers>>

----------------------------------------------------------------------------
(* A row of a table, parsed and validated (CivicsourceParser)              *)

DigitChars == <<"0", "1", "2", "3", "4", "5", "6", "7", "8", "9">>

\* the decimal digits of a natural number
RECURSIVE NatChars(_)
NatChars(n) ==
    IF n < 10 THEN <<DigitChars[n + 1]>>
    ELSE NatChars(n \div 10) \o <<DigitChars[(n % 10) + 1]>>

IntChars(n) == IF n < 0 THEN <<"-">> \o NatChars(-n) ELSE NatChars(n)

\* str(x) of a cell: a string is itself, 150000 is '150000' and 150000.0 is
\* '150000.0'
py_str(x) ==
    CASE x.t = "str" -> x
      [] x.t = "int" -> Str(IntChars(x.v))
      [] x.t = "float" -> Str(IntChars(x.v) \o <<".", "0">>)

\* float(x) of a cell: the float, or the exception raised
py_float(x) ==
    LET n == ToNumber(x) IN
    IF n.ok THEN [ok |-> TRUE, v |-> FloatV(n.v)] ELSE n

\* row.get(column, default)
Cell(row, column, default) == IF column \in DOMAIN row THEN row[column] ELSE default

\* CivicsourceParser._transform_tabular_data (civicsource.py 127-140), and
\* what parse makes of the exception of a conversion (civicsource.py 47-49)
Civicsource_transform_tabular_data(row) ==
    LET assessed == py_float(Cell(row, "assessed_value", IntV(0)))
        lat == py_float(Cell(row, "latitude", IntV(0)))
        lon == py_float(Cell(row, "longitude", IntV(0)))
    IN IF ~assessed.ok \/ ~lat.ok \/ ~lon.ok THEN DataFormatError
       ELSE [res |-> "record",
             data |-> [property_id |-> py_str(Cell(row, "property_id", Str(<<>>))),
                       address |-> py_str(Cell(row, "address", Str(<<>>))),
                       owner_name |-> py_str(Cell(row, "owner_name", Str(<<>>))),
                       assessed_value |-> assessed.v,
                       tax_status |-> py_str(Cell(row, "tax_status", Str(<<>>))),
                       coordinates |-> Dict([lat |-> lat.v, lon |-> lon.v])]]

\* the first rows of the tables parse is tried on
SourceRows ==
    {MkDict(r) : r \in
        [property_id : {Str(AnId), Str(WrongId), IntV(12345)},
         address : {Missing, Str(Text)},
         owner_name : {Str(Text)},
         assessed_value : {Missing, FloatV(MinAssessedValue), FloatV(150000),
                           IntV(150000), FloatV(MaxAssessedValue),
                           FloatV(MaxAssessedValue + 1), Str(Text)},
         tax_status : {Str(<<>>), Str(Text)},
         latitude : {Missing, FloatV(MinLat), IntV(0), FloatV(407),
                     FloatV(MaxLat + 1)},
         longitude : {Missing, IntV(0), FloatV(-740), FloatV(MinLon)},
         coordinates : {Missing, Dict([lat |-> FloatV(407), lon |-> FloatV(-740)])}]}

RoundTripIdle == sourceRow = <<>> /\ parsed = NotCalled

RoundTripInit ==
    /\ sourceRow \in SourceRows
    /\ parsed = NotCalled
    /\ vParser = "Civicsource"
    /\ vRecord = <<>>
    /\ vResult = NotCalled

\* parser.parse({'csv_path': ...}) of a table whose first row is sourceRow
ParseRow ==
    /\ sourceRow # <<>>
    /\ parsed = NotCalled
    /\ parsed' = Civicsource_transform_tabular_data(sourceRow)
    /\ vRecord' = IF parsed'.res = "record" THEN parsed'.data ELSE vRecord
    /\ UNCHANGED <<sourceRow, vParser, vResult>>

\* parser.validate(record) of the record parse returned
ValidateParsed ==
    /\ parsed.res = "record"
    /\ vResult = NotCalled
    /\ vResult' = validate(vParser, vRecord)
    /\ UNCHANGED <<sourceRow, parsed, vParser, vRecord>>

----------------------------------------------------------------------------
(* validate_tax_amount, applied to amounts in every representation         *)

DecimalV(n) == [t |-> "Decimal", v |-> n]

False == [res |-> "False"]

\* the amounts, in whole dollars, as int, as float and as Decimal
Amounts ==
    {[t |-> rep, v |-> n] :
        rep \in {"int", "float", "Decimal"},
        n \in {-MAX_TAX_AMOUNT, -100, -1, 0, 1, 2, 10, 50, 100, 1000, 3500, 5000,
               250000, 9000000,
               MAX_TAX_AMOUNT - 2, MAX_TAX_AMOUNT - 1, MAX_TAX_AMOUNT,
               MAX_TAX_AMOUNT + 1, MAX_TAX_AMOUNT + 2, 2 * MAX_TAX_AMOUNT}}

TaxIdle == amount = NoneV /\ accepted = NotCalled

TaxInit == amount \in Amounts /\ accepted = NotCalled

\* validate_tax_amount(amount)
ValidateTaxAmount ==
    /\ amount # NoneV
    /\ accepted = NotCalled
    /\ accepted' = IF validate_tax_amount(amount) THEN True ELSE False
    /\ UNCHANGED amount

----------------------------------------------------------------------------
(* validate_string_format, applied to values and patterns                  *)

\* a pattern that does not end in $
Unanchored(classes) == [classes |-> classes, dollar |-> FALSE]

\* the patterns of the parsers, as they are written and without their $
FormatPatterns ==
    {CivicsourceIdPattern, DeKalbClassPattern, ClaytonIdPattern, CobbIdPattern}
    \cup {Unanchored(p.classes) :
             p \in {CivicsourceIdPattern, DeKalbClassPattern, ClaytonIdPattern,
                    CobbIdPattern}}

\* the values: identifiers, and identifiers cut short or with characters
\* after them
FormatValues ==
    LET ids == {AnId, ClaytonId, CobbId, <<"R", "0", "3">>} IN
    ids \cup {id \o <<"\n">> : id \in ids}
        \cup {id \o <<"x">> : id \in ids}
        \cup {id \o <<"\n", "\n">> : id \in ids}
        \cup {SubSeq(id, 1, Len(id) - 1) : id \in ids}
        \cup {<<>>}

FormatIdle == formatArgs = NoneV /\ formatResult = NotCalled

FormatInit ==
    /\ formatArgs \in [value : FormatValues, pattern : FormatPatterns]
    /\ formatResult = NotCalled

\* validate_string_format(value, pattern)
ValidateStringFormat ==
    /\ formatArgs # NoneV
    /\ formatResult = NotCalled
    /\ formatResult' =
           IF validate_string_format(formatArgs.value, formatArgs.pattern)
           THEN True ELSE False
    /\ UNCHANGED formatArgs

----------------------------------------------------------------------------
(* The thread *)

Frame(kind, c) == [kind |-> kind, conn |-> c]

FreshChain(cnt) ==
    [entered |-> 0, kinds |-> {}, conns |-> {}, raised |-> FALSE,
     caught |-> FALSE, inner |-> FALSE, nested |-> FALSE, startCount |-> cnt]

NoExit == [kind |-> None]
NoSave == [parser |-> None]

TxnInit ==
    /\ count = 0
    /\ stack = <<>>
    /\ exc = None
    /\ log = <<>>
    /\ chain = FreshChain(0)
    /\ lastExit = NoExit
    /\ lastSave = NoSave
    /\ faults = 0

\* A with-block can be entered by the thread's top-level code (no block
\* open: a new chain starts, whatever the previous chain raised has been
\* dealt with by its caller) or by the body of the innermost open block.
CanEnter ==
    \/ stack = <<>>
    \/ /\ exc = None
       /\ Len(stack) < MaxDepth
       /\ chain.entered < MaxEnters

ChainNow == IF stack = <<>> THEN FreshChain(count) ELSE chain
LogNow == IF stack = <<>> THEN <<>> ELSE log

Entered(kind, c) ==
    [ChainNow EXCEPT
        !.entered = @ + 1,
        !.kinds = @ \cup {kind},
        !.conns = @ \cup {c},
        !.inner = FALSE,
        !.nested = @ \/ (kind = "transaction" /\
                         \E i \in 1..Len(stack) : stack[i].conn = c)]

Failed(events) == IF \E i \in 1..Len(events) : ~events[i].ok THEN 1 ELSE 0

ExitRecord(frame, depth, bodyExc, r, cntAfter) ==
    [kind |-> frame.kind, conn |-> frame.conn, depth |-> depth,
     bodyExc |-> bodyExc, events |-> r.events, exc |-> r.exc,
     countBefore |-> count, countAfter |-> cntAfter]

\* with transaction_scope(c): -- lines 76-81 of utils/db.py
EnterScope(c) ==
    /\ CanEnter
    /\ count' = count + 1
    /\ stack' = Append(stack, Frame("scope", c))
    /\ exc' = None
    /\ log' = LogNow
    /\ chain' = Entered("scope", c)
    /\ lastExit' = NoExit
    /\ lastSave' = NoSave
    /\ UNCHANGED faults

\* a transaction block that was not entered: the with statement raised
Refused(c) ==
    [kind |-> "refused", conn |-> c, depth |-> Len(stack) + 1, bodyExc |-> None,
     events |-> <<>>, exc |-> DatabaseError, countBefore |-> count,
     countAfter |-> count]

\* with parser.transaction(): -- lines 43-47 of base.py, the parser holding
\* connection c
EnterTransaction(c) ==
    /\ CanEnter
    /\ LET e == transaction_enter(c) IN
       IF e.entered
       THEN /\ stack' = Append(stack, Frame("transaction", c))
            /\ exc' = None
            /\ chain' = Entered("transaction", c)
            /\ lastExit' = NoExit
       ELSE /\ stack' = stack
            /\ exc' = e.exc
            /\ chain' = [ChainNow EXCEPT !.raised = TRUE, !.inner = TRUE]
            /\ lastExit' = Refused(c)
    /\ log' = LogNow
    /\ lastSave' = NoSave
    /\ UNCHANGED <<count, faults>>

\* the body of the innermost open block raises
BodyRaise(e) ==
    /\ stack # <<>>
    /\ exc = None
    /\ exc' = e
    /\ chain' = [chain EXCEPT !.raised = TRUE, !.inner = FALSE]
    /\ lastExit' = NoExit
    /\ lastSave' = NoSave
    /\ UNCHANGED <<count, stack, log, faults>>

\* the body of the innermost open block handles (try / except) what a block
\* or a save nested in it raised, and goes on
BodyCatch ==
    /\ stack # <<>>
    /\ exc # None
    /\ chain.inner
    /\ exc' = None
    /\ chain' = [chain EXCEPT !.caught = TRUE, !.inner = FALSE]
    /\ lastExit' = NoExit
    /\ lastSave' = NoSave
    /\ UNCHANGED <<count, stack, log, faults>>

\* The innermost open block is left: its body completed (exc = None) or an
\* exception leaves it.
ExitBlock(commitOk, rollbackOk) ==
    /\ stack # <<>>
    /\ LET depth == Len(stack)
           frame == stack[depth]
           r == IF frame.kind = "scope"
                THEN transaction_scope_exit(count, frame.conn, depth, exc,
                                            commitOk, rollbackOk)
                ELSE [count |-> count] @@
                     transaction_exit(frame.conn, depth, exc, commitOk, rollbackOk)
       IN /\ faults + Failed(r.events) <= MaxFaults
          /\ count' = r.count
          /\ stack' = SubSeq(stack, 1, depth - 1)
          /\ exc' = r.exc
          /\ log' = log \o r.events
          /\ chain' = [chain EXCEPT !.inner = (r.exc # None)]
          /\ lastExit' = ExitRecord(frame, depth, exc, r, r.count)
          /\ faults' = faults + Failed(r.events)
    /\ lastSave' = NoSave

\* parser.save(data) as a whole: the transaction block is entered, the body
\* runs its INSERTs, the block is left.
Save(parser, c, body, commitOk, rollbackOk) ==
    /\ CanEnter
    /\ LET depth == Len(stack) + 1
           e == transaction_enter(c)
           r == transaction_exit(c, depth, body.exc, commitOk, rollbackOk)
       IN IF e.entered
          THEN /\ faults + Failed(r.events) <= MaxFaults
               /\ exc' = r.exc
               /\ log' = LogNow \o r.events
               /\ chain' = [Entered("transaction", c) EXCEPT !.inner = (r.exc # None)]
               /\ lastExit' = ExitRecord(Frame("transaction", c), depth, body.exc,
                                         r, count)
               /\ lastSave' = [parser |-> parser, conn |-> c, n |-> body.n,
                               urls |-> body.urls, failRec |-> body.failRec,
                               executes |-> body.executes, bodyExc |-> body.exc,
                               events |-> r.events, exc |-> r.exc]
               /\ faults' = faults + Failed(r.events)
          ELSE /\ exc' = e.exc
               /\ log' = LogNow
               /\ chain' = [ChainNow EXCEPT !.raised = TRUE, !.inner = TRUE]
               /\ lastExit' = Refused(c)
               /\ lastSave' = [parser |-> parser, conn |-> c, n |-> body.n,
                               urls |-> body.urls, failRec |-> 0,
                               executes |-> <<>>,
                               bodyExc |-> None, events |-> <<>>, exc |-> e.exc]
               /\ faults' = faults
    /\ UNCHANGED <<count, stack>>

\* The outcomes of commit and rollback that a save can tell apart: rollback
\* is only called when the body or the commit raised.
Outcomes(bodyExc) ==
    IF bodyExc # None
    THEN {<<TRUE, TRUE>>, <<TRUE, FALSE>>}
    ELSE {<<TRUE, TRUE>>, <<FALSE, TRUE>>, <<FALSE, FALSE>>}

GovEaseSave(c) ==
    \E urls \in UrlLists : \E failRec \in 0..Len(urls) :
        \E failStmt \in (IF failRec = 0 THEN {0} ELSE 1..(1 + urls[failRec])) :
            LET body == [n |-> Len(urls), urls |-> urls, failRec |-> failRec] @@
                        GovEase_save_body(1, urls, failRec, failStmt)
            IN \E o \in Outcomes(body.exc) : Save("GovEase", c, body, o[1], o[2])

DictSave(c) ==
    \E parser \in Parsers \ {"GovEase"} : \E executeOk \in BOOLEAN :
        LET body == [n |-> 1, urls |-> <<>>,
                     failRec |-> IF executeOk THEN 0 ELSE 1] @@
                    dict_save_body(executeOk)
        IN \E o \in Outcomes(body.exc) : Save(parser, c, body, o[1], o[2])

Init == TxnInit /\ ValidateIdle /\ ParserIdle /\ RoundTripIdle /\ TaxIdle /\ FormatIdle

\* The with-blocks of transaction_scope and BaseParser.transaction, nested
\* in any way over two connections.
Next ==
    /\ \/ \E c \in Conns : EnterScope(c)
       \/ \E c \in Conns : EnterTransaction(c)
       \/ \E e \in BodyExceptions : BodyRaise(e)
       \/ BodyCatch
       \/ \E commitOk, rollbackOk \in BOOLEAN : ExitBlock(commitOk, rollbackOk)
    /\ UNCHANGED <<validateVars, parserVars, roundTripVars, taxVars, formatVars>>

Spec == Init /\ [][Next]_vars

\* A parser and its connection (self.connection, base.py line 16), and a
\* parser constructed without one: save is called by top-level code or from
\* inside the body of a self.transaction() block.
ParserConn == "c1"

\* the connection of a parser: the one it was constructed with, or None
Connections == {ParserConn, None}

NextSave ==
    /\ \/ \E c \in Connections : EnterTransaction(c)
       \/ BodyCatch
       \/ \E commitOk, rollbackOk \in BOOLEAN : ExitBlock(commitOk, rollbackOk)
       \/ \E c \in Connections : GovEaseSave(c)
       \/ \E c \in Connections : DictSave(c)
    /\ UNCHANGED <<validateVars, parserVars, roundTripVars, taxVars, formatVars>>

SpecSave == Init /\ [][NextSave]_vars

\* parser.save(record) after parser.validate(record), whatever validate made
\* of it, on a connection whose calls all succeed
SaveRecord ==
    /\ vResult # NotCalled
    /\ lastSave = NoSave
    /\ LET body == [n |-> 1, urls |-> <<>>, failRec |-> 0] @@
                   record_save_body(vParser, vRecord)
       IN Save(vParser, ParserConn, body, TRUE, TRUE)
    /\ UNCHANGED validateVars

\* validate of the dict-based parsers, applied to a record, and save of the
\* record on a working connection
InitValidate == TxnInit /\ ValidateInit /\ ParserIdle /\ RoundTripIdle /\ TaxIdle /\ FormatIdle

NextValidate ==
    /\ \/ Validate /\ UNCHANGED txnVars
       \/ SaveRecord
    /\ UNCHANGED <<parserVars, roundTripVars, taxVars, formatVars>>

SpecValidate == InitValidate /\ [][NextValidate]_vars

\* one parser instance, parsed and cleaned with in any order; a
\* DeKalbCivicsourceParser also authenticates while time passes
InitParser == TxnInit /\ ValidateIdle /\ ParserInit /\ RoundTripIdle /\ TaxIdle /\ FormatIdle

NextParser ==
    /\ \/ Parse
       \/ Clean
       \/ Authenticate
       \/ RefreshSession
       \/ Tick
    /\ UNCHANGED <<txnVars, validateVars, roundTripVars, taxVars, formatVars>>

SpecParser == InitParser /\ [][NextParser]_vars

\* the first row of a table, parsed and then validated
InitRoundTrip == TxnInit /\ ParserIdle /\ RoundTripInit /\ TaxIdle /\ FormatIdle

NextRoundTrip ==
    /\ \/ ParseRow
       \/ ValidateParsed
    /\ UNCHANGED <<txnVars, parserVars, taxVars, formatVars>>

SpecRoundTrip == InitRoundTrip /\ [][NextRoundTrip]_vars

\* validate_tax_amount, applied to an amount
InitTaxAmount == TxnInit /\ ValidateIdle /\ ParserIdle /\ RoundTripIdle /\ TaxInit /\ FormatIdle

NextTaxAmount ==
    /\ ValidateTaxAmount
    /\ UNCHANGED <<txnVars, validateVars, parserVars, roundTripVars, formatVars>>

SpecTaxAmount == InitTaxAmount /\ [][NextTaxAmount]_vars

\* validate_string_format, applied to a value and a pattern
InitFormat ==
    TxnInit /\ ValidateIdle /\ ParserIdle /\ RoundTripIdle /\ TaxIdle /\ FormatInit

NextFormat ==
    /\ ValidateStringFormat
    /\ UNCHANGED <<txnVars, validateVars, parserVars, roundTripVars, taxVars>>

SpecFormat == InitFormat /\ [][NextFormat]_vars

----------------------------------------------------------------------------
(* Transactions: the claims *)

ChainDone == stack = <<>> /\ chain.entered > 0

\* the chain opened transaction_scope blocks only, all on one connection
ScopeChain == chain.kinds = {"scope"} /\ Cardinality(chain.conns) = 1

AllOk(events) == \A i \in 1..Len(events) : events[i].ok

AtDepthOne(events, op) ==
    \A i \in 1..Len(events) : events[i].op = op => events[i].depth = 1

\* C1: in a finished chain of transaction_scope blocks on one connection,
\* nested to any depth, in which no body raised and no database call failed,
\* commit was called exactly once, by the exit of the outermost block, and
\* rollback was never called.
C1_CommitOnceAtOutermostExit ==
    (ChainDone /\ ScopeChain /\ ~chain.raised /\ AllOk(log))
        => /\ CountOp(log, "commit") = 1
           /\ CountOp(log, "rollback") = 0
           /\ AtDepthOne(log, "commit")

\* C2: in a finished chain of transaction_scope blocks on one connection in
\* which a body raised, no enclosing body handled the exception and no
\* database call failed, rollback was called exactly once, by the exit of the
\* outermost block, commit was never called, and the caller got the
\* exception the body raised.
C2_RollbackOnceAndReraise ==
    (ChainDone /\ ScopeChain /\ chain.raised /\ ~chain.caught /\ AllOk(log))
        => /\ CountOp(log, "rollback") = 1
           /\ CountOp(log, "commit") = 0
           /\ AtDepthOne(log, "rollback")
           /\ exc \in BodyExceptions

LeftTransaction == lastExit.kind = "transaction"

C4_OnlyOutermostCommits ==
    (chain.nested /\ AllOk(log)) =>
        /\ CountOp(log, "commit") <= 1
        /\ AtDepthOne(log, "commit")

SavedByGovEase == lastSave.parser = "GovEase"

\* C5: GovEaseParser.save of n records: if saving the k-th record failed,
\* save raised DatabaseError, rollback was called exactly once, commit was
\* not called and no record after the k-th was attempted; commit was called
\* only (and then exactly once) when all n records were inserted.
C5_NoPartialSuccess ==
    SavedByGovEase =>
        LET k == lastSave.failRec
            ex == lastSave.executes
        IN /\ k > 0 =>
                /\ lastSave.exc = DatabaseError
                /\ CountOp(lastSave.events, "rollback") = 1
                /\ CountOp(lastSave.events, "commit") = 0
                /\ \A i \in 1..Len(ex) : ex[i].rec <= k
           /\ CountOp(lastSave.events, "commit") > 0 =>
                /\ CountOp(lastSave.events, "commit") = 1
                /\ \A r \in 1..lastSave.n :
                       \E i \in 1..Len(ex) :
                           ex[i].rec = r /\ ex[i].table = "properties"
                /\ \A i \in 1..Len(ex) : ex[i].ok

\* what does hold of GovEaseParser.save on a connection whenever rollback
\* returns
GovEaseSaveRolledBack ==
    (SavedByGovEase /\ lastSave.conn # None /\ AllOk(lastSave.events)) =>
        LET k == lastSave.failRec
            ex == lastSave.executes
        IN /\ k > 0 =>
                /\ lastSave.exc = DatabaseError
                /\ lastSave.events = <<Event("rollback", lastSave.conn,
                                             lastExit.depth, TRUE)>>
                /\ \A i \in 1..Len(ex) : ex[i].rec <= k
           /\ k = 0 => lastSave.events = <<Event("commit", lastSave.conn,
                                                 lastExit.depth, TRUE)>>

\* what does hold of a chain of transaction_scope blocks that starts with
\* the counter at 0
ScopeChainFromZero ==
    (ChainDone /\ ScopeChain /\ chain.startCount = 0 /\ ~chain.caught /\ AllOk(log))
        => IF chain.raised
           THEN log = <<Event("rollback", log[1].conn, 1, TRUE)>> /\ exc \in BodyExceptions
           ELSE log = <<Event("commit", log[1].conn, 1, TRUE)>> /\ exc = None

----------------------------------------------------------------------------
(* validate *)

Validated == vResult # NotCalled

\* a value that counts as empty: None, "" or {}
IsEmpty(x) ==
    \/ x.t = "NoneType"
    \/ x.t = "str" /\ Len(x.v) = 0
    \/ x.t = "dict" /\ DOMAIN x.v = {}

EmptyFields ==
    {i \in 1..Len(REQUIRED_FIELDS(vParser)) :
        IsEmpty(Get(vRecord, REQUIRED_FIELDS(vParser)[i]))}

Ranged(x, min_val, max_val) == [x |-> x, min_val |-> min_val, max_val |-> max_val]

RangedValues ==
    LET held(d, f, lo, hi) ==
            IF f \in DOMAIN d /\ IsNumber(d[f]) THEN {Ranged(d[f].v, lo, hi)} ELSE {}
        coords == Get(vRecord, "coordinates")
    IN CASE vParser = "Civicsource" ->
                held(vRecord, "assessed_value", MinAssessedValue, MaxAssessedValue)
                \cup (IF coords.t = "dict"
                      THEN held(coords.v, "lat", MinLat, MaxLat)
                           \cup held(coords.v, "lon", MinLon, MaxLon)
                      ELSE {})
         [] vParser = "Clayton" ->
                held(vRecord, "market_value", MinMarketValue, MaxMarketValue)
                \cup held(vRecord, "tax_year", MinTaxYear, MaxTaxYear)

NonEmptyStr(x) == x.t = "str" /\ Len(x.v) > 0

\* the record is valid in everything but the values of its ranged fields,
\* all of which it holds as numbers
OtherwiseValid ==
    CASE vParser = "Civicsource" ->
            /\ Get(vRecord, "property_id") = Str(AnId)
            /\ \A f \in {"address", "owner_name", "tax_status"} :
                   NonEmptyStr(Get(vRecord, f))
            /\ Cardinality(RangedValues) = 3
      [] vParser = "Clayton" ->
            /\ Get(vRecord, "parcel_id") = Str(ClaytonId)
            /\ \A f \in {"owner_name", "property_address"} :
                   NonEmptyStr(Get(vRecord, f))
            /\ Cardinality(RangedValues) = 2

\* C7: validate raises ValidationError for a record with a numeric value
\* outside its declared range [min, max], and returns True for an otherwise
\* valid record whose values lie in their ranges, the range minimum and the
\* range maximum included.
C7_RangeBoundaries ==
    (Validated /\ vParser \in {"Civicsource", "Clayton"}) =>
        /\ (\E r \in RangedValues : r.x < r.min_val \/ r.x > r.max_val)
               => vResult.res = "ValidationError"
        /\ (OtherwiseValid
            /\ \A r \in RangedValues : r.min_val <= r.x /\ r.x <= r.max_val)
               => vResult = True

\* what holds of the ranges: a value outside its range is refused, and an
\* otherwise valid record within its ranges is accepted unless one of its
\* required numbers is 0
RangesButZero ==
    (Validated /\ vParser \in {"Civicsource", "Clayton"}) =>
        /\ (\E r \in RangedValues : r.x < r.min_val \/ r.x > r.max_val)
               => vResult.res = "ValidationError"
        /\ (OtherwiseValid
            /\ \A r \in RangedValues : r.min_val <= r.x /\ r.x <= r.max_val)
               => (vResult = True
                   <=> \A f \in {"assessed_value", "market_value", "tax_year"} :
                           f \in DOMAIN vRecord => vRecord[f].v # 0)

----------------------------------------------------------------------------
(* clean, refresh_session, parse *)

\* C8: clean is total and idempotent for every parser: whatever was called
\* before it, clean returns without raising, and a clean that follows a
\* clean leaves the parser's buffers as it found them.
C8_CleanIdempotentAndTotal ==
    call.op = "clean" =>
        /\ call.result = Returned
        /\ call.prevOp = "clean" => attrs = call.attrsBefore

\* what does hold of clean: it raises exactly when it finds a buffer that an
\* earlier clean deleted, and a clean that returns after a clean changes
\* nothing
CleanRaisesOnDeleted ==
    call.op = "clean" =>
        /\ call.result # Returned
              <=> \E a \in DOMAIN call.attrsBefore : call.attrsBefore[a] = Deleted
        /\ (call.prevOp = "clean" /\ call.result = Returned)
              => attrs = call.attrsBefore

\* refresh_session was called (by the caller or by parse) on a parser with a
\* stored token whose expiry had passed
RefreshedExpired ==
    /\ call.op \in {"refresh_session", "parse"}
    /\ IsDeKalb
    /\ ~NoToken(call.sessionBefore)
    /\ call.at >= call.sessionBefore.token_expiry.v

Unrecognized(kind, data) ==
    CASE kind = "Civicsource" ->
            /\ data.t = "dict"
            /\ DOMAIN data.v \cap {"excel_path", "csv_path", "gis_path"} = {}
      [] kind = "GovEase" ->
            \/ data.t = "str" /\ data.suffix \notin {".csv", ".xls", ".xlsx"}
            \/ data.t \notin {"str", "DataFrame"}
      [] kind \in {"Cobb", "ClaytonPDF", "ClaytonExcel"} ->
            data.t = "str" /\ data.v \in {"absent", "syntax"}
      [] OTHER -> FALSE

ParsedUnrecognized == call.op = "parse" /\ Unrecognized(lParser, call.input)

\* C10: parse of an input that is no recognized path or format fails with
\* DataFormatError and with no other exception, for every parser.
C10_UnrecognizedInputIsDataFormatError ==
    ParsedUnrecognized => call.result = DataFormatError

\* what does hold of parse: of the unrecognized inputs only a Cobb path whose
\* extraction fails with something other than PDFSyntaxError escapes the
\* DataFormatError
OnlyCobbLeaks ==
    ParsedUnrecognized =>
        IF lParser = "Cobb" /\ call.input.v = "absent"
        THEN call.result = Raised("FileNotFoundError")
        ELSE call.result = DataFormatError

----------------------------------------------------------------------------
(* Records *)

ParsedRecord == call.op = "parse" /\ call.result.res \in {"record", "records"}

\* C11: the record a parse call returns depends on the input of that call
\* only: it is the record that a freshly constructed parser of the same
\* class returns for the same input.
C11_FreshRecordPerParse ==
    ParsedRecord =>
        call.result = parse(lParser, NewAttrs(lParser), call.input).result

\* what does hold of the record parse returns: it is the fresh parser's
\* record unless the parser is a Civicsource one that still holds the table
\* of an earlier parse and is handed a GIS path only
StaleOnlyAfterTable ==
    ParsedRecord =>
        \/ call.result = parse(lParser, NewAttrs(lParser), call.input).result
        \/ /\ lParser \in {"Civicsource", "DeKalb"}
           /\ call.attrsBefore.data_frame \notin {None, Deleted}
           /\ call.result = Record("data_frame", call.attrsBefore.data_frame)

\* the coordinates of the row: a coordinates column as the records have it,
\* or a latitude and a longitude column
SourceCoordinates ==
    IF "coordinates" \in DOMAIN sourceRow THEN sourceRow.coordinates.v
    ELSE [lat |-> sourceRow.latitude, lon |-> sourceRow.longitude]

\* the row holds every column, with values that pass every rule of validate
WellFormedRow ==
    /\ {"property_id", "address", "owner_name", "assessed_value", "tax_status"}
           \subseteq DOMAIN sourceRow
    /\ sourceRow.property_id = Str(AnId)
    /\ \A c \in {"address", "owner_name", "tax_status"} : NonEmptyStr(sourceRow[c])
    /\ IsNumber(sourceRow.assessed_value)
    /\ MinAssessedValue <= sourceRow.assessed_value.v
    /\ sourceRow.assessed_value.v <= MaxAssessedValue
    /\ "latitude" \in DOMAIN sourceRow <=> "longitude" \in DOMAIN sourceRow
    /\ "latitude" \in DOMAIN sourceRow <=> "coordinates" \notin DOMAIN sourceRow
    /\ MinLat <= SourceCoordinates.lat.v /\ SourceCoordinates.lat.v <= MaxLat
    /\ MinLon <= SourceCoordinates.lon.v /\ SourceCoordinates.lon.v <= MaxLon

RoundTripDone == parsed # NotCalled /\ (parsed.res = "record" => Validated)

\* the record holds the values of the row
SameValues ==
    /\ \A c \in {"property_id", "address", "owner_name", "tax_status"} :
           vRecord[c] = sourceRow[c]
    /\ vRecord.assessed_value.v = sourceRow.assessed_value.v
    /\ vRecord.coordinates.v.lat.v = SourceCoordinates.lat.v
    /\ vRecord.coordinates.v.lon.v = SourceCoordinates.lon.v

\* C12: a well-formed row of a table, parsed and then validated: parse
\* returns a record, validate returns True, and every field of the record
\* has the value of the row.
C12_RoundTrip ==
    (RoundTripDone /\ WellFormedRow) =>
        /\ parsed.res = "record"
        /\ vResult = True
        /\ SameValues

\* what does hold of the round trip: validate refuses the record exactly
\* when the assessed value is 0, and the record has the row's values when the
\* coordinates come in a latitude and a longitude column
RoundTripButZero ==
    (RoundTripDone /\ WellFormedRow) =>
        /\ parsed.res = "record"
        /\ vResult = True <=> sourceRow.assessed_value.v # 0
        /\ "latitude" \in DOMAIN sourceRow => SameValues
        /\ "coordinates" \in DOMAIN sourceRow =>
               vRecord.coordinates = Dict([lat |-> FloatV(0), lon |-> FloatV(0)])

----------------------------------------------------------------------------
(* Retries *)

SessionCall == IsDeKalb /\ call.op \in {"refresh_session", "parse"}

\* the last request the call sent was a login that failed
LoginFailed ==
    /\ call.requests # <<>>
    /\ call.requests[Len(call.requests)] = "auth/login"
    /\ call.answers[Len(call.requests)].kind = "request_error"

ReadEvents == {i \in 1..Len(call.trace) : call.trace[i].ev = "read"}

----------------------------------------------------------------------------
(* A parser without a connection *)

\* C14: the transaction block of a parser without a connection raises
\* DatabaseError on entry: the block is never open, so its body never runs
\* (a save executes no statement), and no commit and no rollback is tried.
C14_NoConnectionRaisesOnEntry ==
    /\ \A i \in 1..Len(stack) : stack[i].conn # None
    /\ \A i \in 1..Len(log) : log[i].conn # None
    /\ (lastExit.kind # None /\ lastExit.conn = None) =>
          /\ lastExit.kind = "refused"
          /\ lastExit.events = <<>>
          /\ exc = DatabaseError
    /\ (lastSave.parser # None /\ lastSave.conn = None) =>
          /\ lastSave.executes = <<>>
          /\ lastSave.events = <<>>
          /\ lastSave.exc = DatabaseError

\* C14 happens: a transaction block on no connection was refused
C14_Witness ==
    /\ lastExit.kind = "refused"
    /\ lastExit.conn = None
    /\ lastSave = NoSave
    /\ exc = DatabaseError
    /\ log = <<>>

----------------------------------------------------------------------------
(* The order of the checks of validate *)

RequiredCheck(parser, data) ==
    IF validate_required_fields(data, REQUIRED_FIELDS(parser)) THEN True
    ELSE ValidationError("Missing required fields")

\* the check of one required field of CobbPDFParser
CobbFieldCheck(data, field) ==
    IF Truthy(Get(data, field)) THEN True
    ELSE ValidationError("Missing required field: " \o field)

\* every check of validate applied to the record on its own, in the order
\* of the source
CheckOutcomes(parser, data) ==
    CASE parser = "Civicsource" ->
            <<RequiredCheck(parser, data),
              StringRule(Get(data, "property_id"),
                         validate_string_format(Get(data, "property_id").v,
                                                CivicsourceIdPattern),
                         "Invalid property ID format", True),
              RangeRule(Get(data, "assessed_value"), MinAssessedValue,
                        MaxAssessedValue, "Invalid assessed value", True),
              CoordinatesRule(Get(data, "coordinates"), MinLat, MaxLat, MinLon,
                              MaxLon, "Invalid coordinates", True)>>
      [] parser = "DeKalb" ->
            <<RequiredCheck(parser, data),
              StringRule(Get(data, "tax_id"),
                         validate_dekalb_id(Get(data, "tax_id").v),
                         "Invalid DeKalb County tax ID format", True),
              RangeRule(Get(data, "assessed_value"), MinAssessedValue,
                        MaxAssessedValue, "Invalid assessed value", True),
              CoordinatesRule(Get(data, "coordinates"), DeKalbMinLat, DeKalbMaxLat,
                              DeKalbMinLon, DeKalbMaxLon,
                              "Invalid coordinates for DeKalb County", True),
              StringRule(Get(data, "property_class"),
                         validate_string_format(Get(data, "property_class").v,
                                                DeKalbClassPattern),
                         "Invalid property class format", True),
              IF validate_tax_amount(Get(data, "total_due")) THEN True
              ELSE ValidationError("Invalid total due amount"),
              StringRule(Get(data, "sale_date"),
                         validate_date_format(Get(data, "sale_date").v),
                         "Invalid sale date format", True)>>
      [] parser = "Clayton" ->
            <<RequiredCheck(parser, data),
              StringRule(Get(data, "parcel_id"),
                         validate_string_format(Get(data, "parcel_id").v,
                                                ClaytonIdPattern),
                         "Invalid parcel ID format", True),
              RangeRule(Get(data, "market_value"), MinMarketValue, MaxMarketValue,
                        "Invalid market value", True),
              RangeRule(Get(data, "tax_year"), MinTaxYear, MaxTaxYear,
                        "Invalid tax year", True)>>
      [] parser = "Cobb" ->
            [i \in 1..Len(Cobb_REQUIRED_FIELDS) |->
                CobbFieldCheck(data, Cobb_REQUIRED_FIELDS[i])]
            \o
            <<StringRule(Get(data, "property_id"),
                         re_match(CobbIdPattern, Get(data, "property_id").v),
                         "Invalid property ID format", True),
              IF IsNumber(Get(data, "tax_amount")) /\ Get(data, "tax_amount").v >= 0
              THEN True ELSE ValidationError("Invalid tax amount"),
              StringRule(Get(data, "assessment_date"),
                         strptime_ok(Get(data, "assessment_date").v),
                         "Invalid date format", True)>>

FailedChecks(outcomes) == {i \in 1..Len(outcomes) : outcomes[i] # True}

----------------------------------------------------------------------------
(* The session comes before the extraction *)

ParsedWithoutToken ==
    /\ IsDeKalb
    /\ call.op = "parse"
    /\ NoToken(call.sessionBefore)

C16_FailedLogin ==
    /\ ParsedWithoutToken
    /\ call.answers[1].kind = "request_error"
    /\ call.input.t = "dict"
    /\ call.result = Raised(AuthenticationError)

----------------------------------------------------------------------------
(* refresh_session on an expired token *)

RefreshSessionOnExpired == RefreshedExpired /\ call.op = "refresh_session"

\* C17: refresh_session on a token whose expiry has passed, every request
\* being answered without error, calls authenticate exactly once and
\* returns True.
C17_ExpiredTokenAuthenticates ==
    (/\ RefreshSessionOnExpired
     /\ \A i \in 1..Len(call.answers) : call.answers[i].kind = "ok") =>
        /\ call.authenticates = 1
        /\ call.result = True

\* what does hold: refresh_session on a token whose expiry has passed calls
\* authenticate exactly when its refresh request fails with a request
\* error, and then once; it returns True when the refresh request, or the
\* login after a failed one, is answered with a token
AuthenticateAfterFailedRefresh ==
    RefreshSessionOnExpired =>
        /\ call.authenticates = (IF call.answers[1].kind = "request_error"
                                 THEN 1 ELSE 0)
        /\ call.answers[Len(call.answers)].kind = "ok" => call.result = True
        /\ call.result = True => call.answers[Len(call.answers)].kind = "ok"

----------------------------------------------------------------------------
(* The records of DeKalbCivicsourceParser.parse *)

DeKalbParsed == IsDeKalb /\ ParsedRecord

\* the file the call read
SourceRead == call.trace[CHOOSE i \in ReadEvents : TRUE].file

\* C18: DeKalbCivicsourceParser.parse of a table or a GIS layer of n rows
\* returns a list of n records, the i-th one made of the i-th row.
C18_OneRecordPerRow ==
    DeKalbParsed =>
        /\ call.result.res = "records"
        /\ Len(call.result.rows) = RowCount(SourceRead)
        /\ \A i \in 1..Len(call.result.rows) :
               call.result.rows[i] = <<SourceRead, i>>

\* what does hold: parse returns one dict, made of the first row of a buffer
\* the parser holds, however many rows the source has
DeKalbReturnsOneRecord ==
    DeKalbParsed =>
        /\ call.result.res = "record"
        /\ call.result.row \in {attrs.data_frame, attrs.gis_data}

\* a source of three rows was parsed
ParsedThreeRows == DeKalbParsed /\ RowCount(SourceRead) = 3

----------------------------------------------------------------------------
(* The record of the DeKalb tests *)

\* a record as valid_data of test_civicsource_dekalb.py: the fields the
\* test gives, tax_id as '15-123-04-005', property_class as 'R3', a positive
\* total_due, sale_date as YYYY-MM-DD, coordinates inside the DeKalb bounds
TestShaped(data) ==
    /\ {"tax_id", "address", "owner_name", "assessed_value", "property_class",
        "total_due", "sale_date", "coordinates"} \subseteq DOMAIN data
    /\ data.tax_id = Str(DeKalbTestId)
    /\ NonEmptyStr(data.address) /\ NonEmptyStr(data.owner_name)
    /\ IsNumber(data.assessed_value)
    /\ MinAssessedValue <= data.assessed_value.v
    /\ data.assessed_value.v <= MaxAssessedValue
    /\ data.property_class = Str(<<"R", "3">>)
    /\ IsNumber(data.total_due) /\ data.total_due.v > 0
    /\ data.sale_date = Str(ADate)
    /\ data.coordinates.t = "dict"
    /\ DOMAIN data.coordinates.v = {"lat", "lon"}
    /\ DeKalbMinLat <= data.coordinates.v.lat.v
    /\ data.coordinates.v.lat.v <= DeKalbMaxLat
    /\ DeKalbMinLon <= data.coordinates.v.lon.v
    /\ data.coordinates.v.lon.v <= DeKalbMaxLon

ValidatedTestShaped == Validated /\ vParser = "DeKalb" /\ TestShaped(vRecord)

\* C19: DeKalbCivicsourceParser.validate returns True for a record shaped
\* as the valid_data of its tests.
C19_TestRecordIsValid == ValidatedTestShaped => vResult = True

\* what does hold: every such record is refused, for its missing tax_status
\* or else for its tax ID
TestRecordRefused ==
    ValidatedTestShaped =>
        vResult = IF "tax_status" \in DOMAIN vRecord /\ Truthy(vRecord.tax_status)
                     /\ Truthy(vRecord.assessed_value)
                  THEN ValidationError("Invalid DeKalb County tax ID format")
                  ELSE ValidationError("Missing required fields")

----------------------------------------------------------------------------
(* The tax amounts accepted *)

TaxAmountValidated == accepted # NotCalled

\* C20: validate_tax_amount returns True exactly for the amounts above 0 and
\* under 10,000,000, given as int, as float or as Decimal.
C20_PositiveUnderTenMillion ==
    TaxAmountValidated =>
        (accepted = True <=> (0 < amount.v /\ amount.v < MAX_TAX_AMOUNT))

\* what does hold: True exactly for the floats and the Decimals in the range
FloatOrDecimalInRange ==
    TaxAmountValidated =>
        (accepted = True <=> /\ amount.t \in {"float", "Decimal"}
                             /\ 0 < amount.v /\ amount.v < MAX_TAX_AMOUNT)

\* an amount given as int was refused
IntRefused == amount = IntV(3500) /\ accepted = False

----------------------------------------------------------------------------
(* Full match *)

FormatValidated == formatResult # NotCalled

\* the whole of the value, from its first to its last character, matches
FullMatch(pattern, value) ==
    /\ Len(value) = Len(pattern.classes)
    /\ \A i \in 1..Len(value) : value[i] \in pattern.classes[i]

\* C21: validate_string_format(value, pattern) returns True only if the
\* whole of value matches pattern.
C21_FullMatchOnly ==
    (FormatValidated /\ formatResult = True) =>
        FullMatch(formatArgs.pattern, formatArgs.value)

\* what does hold: a pattern that ends in $ accepts the values that match as
\* a whole, and those values with one newline after them; a pattern that
\* does not accepts every value that starts with a match
MatchAtStart ==
    FormatValidated =>
        LET p == formatArgs.pattern
            v == formatArgs.value
            n == Len(p.classes)
        IN formatResult = True <=>
              /\ Len(v) >= n
              /\ FullMatch(p, SubSeq(v, 1, n))
              /\ p.dollar => (Len(v) = n \/ (Len(v) = n + 1 /\ v[n + 1] = "\n"))

\* the property ID of CivicsourceParser.validate with a newline after it
\* was accepted
NewlineAccepted ==
    /\ formatArgs = [value |-> AnId \o <<"\n">>, pattern |-> CivicsourceIdPattern]
    /\ formatResult = True

----------------------------------------------------------------------------
(* The nesting counter of transaction_scope *)

\* the transaction_scope blocks that are open
OpenScopes == Cardinality({i \in 1..Len(stack) : stack[i].kind = "scope"})

\* C22: the counter of transaction_scope is never negative and counts the
\* transaction_scope blocks that are open: every exit, with or without an
\* exception, puts it back to its value at entry, and it is 0 when no block
\* is open.
C22_CounterBalanced ==
    /\ count >= 0
    /\ count = OpenScopes

\* what does hold: the counter is balanced as long as no commit and no
\* rollback has raised, and an exit whose commit raised takes one more off
CounterBalancedUnlessCommitRaised ==
    /\ faults = 0 => count = OpenScopes
    /\ lastExit.kind = "scope" =>
          lastExit.countAfter = lastExit.countBefore - 1
              - (IF \E i \in 1..Len(lastExit.events) :
                        lastExit.events[i].op = "commit" /\ ~lastExit.events[i].ok
                 THEN 1 ELSE 0)

\* the exit of an outermost transaction_scope whose commit raised left the
\* counter at -1
CounterNegative ==
    /\ stack = <<>>
    /\ lastExit.kind = "scope"
    /\ count = -1

----------------------------------------------------------------------------
(* Atomicity of a chain of nested scopes *)

\* C23: in a chain of nested transaction_scope blocks on one connection in
\* which a body was left by an exception, commit is never called, also when
\* an enclosing body handles the exception and completes.
C23_NoCommitAfterException ==
    (ScopeChain /\ chain.raised) => CountOp(log, "commit") = 0

\* what does hold: in a chain that starts with the counter at 0, commit is
\* not called as long as no enclosing body has handled the exception
NoCommitUnlessCaught ==
    (ScopeChain /\ chain.startCount = 0 /\ chain.raised /\ ~chain.caught)
        => CountOp(log, "commit") = 0

\* an inner body raised, the enclosing body handled the exception and
\* completed, and the exit of the outermost block committed
CommittedAfterCaught ==
    /\ ChainDone /\ ScopeChain
    /\ chain.raised /\ chain.caught
    /\ chain.startCount = 0
    /\ log = <<Event("commit", lastExit.conn, 1, TRUE)>>
    /\ exc = None

----------------------------------------------------------------------------
(* Scopes on two connections *)

\* the calls of op on connection c
CallsOn(events, op, c) ==
    Cardinality({i \in 1..Len(events) : events[i].op = op /\ events[i].conn = c})

\* a finished chain of transaction_scope blocks on two connections, no body
\* of which raised and no database call of which failed
TwoConnectionsDone ==
    /\ ChainDone
    /\ chain.kinds = {"scope"}
    /\ Cardinality(chain.conns) = 2
    /\ ~chain.raised
    /\ AllOk(log)

\* C24: when transaction_scope blocks on two connections are nested and
\* every body completes, each of the two connections has been committed
\* exactly once when the outermost block has exited.
C24_EachConnectionCommitted ==
    TwoConnectionsDone => \A c \in chain.conns : CallsOn(log, "commit", c) = 1

\* what does hold, the counter being 0 at the start: the connection of the
\* outermost block is committed once, and the other one never
OnlyOutermostConnectionCommitted ==
    (TwoConnectionsDone /\ chain.startCount = 0) =>
        log = <<Event("commit", lastExit.conn, 1, TRUE)>>

----------------------------------------------------------------------------
(* save after validate *)

SavedRecord == lastSave.parser = vParser /\ vParser # None

\* C25: save of a record for which validate of the same parser returned
\* True, on a working connection, finds every key it subscripts: it
\* executes its INSERT, commits and raises nothing.
C25_ValidatedRecordSaves ==
    (SavedRecord /\ vResult = True) =>
        /\ lastSave.bodyExc = None
        /\ lastSave.exc = None
        /\ Len(lastSave.executes) = 1
        /\ CountOp(lastSave.events, "commit") = 1

\* what does hold: the validated records of Clayton and Cobb are saved, the
\* ones of Civicsource are unless coordinates lacks lat or lon, and the ones
\* of DeKalb are not, for they have no property_id
ValidatedRecordSavesIfKeys ==
    (SavedRecord /\ vResult = True) =>
        LET complete ==
                CASE vParser \in {"Clayton", "Cobb"} -> TRUE
                  [] vParser = "Civicsource" ->
                        {"lat", "lon"} \subseteq DOMAIN vRecord.coordinates.v
                  [] vParser = "DeKalb" -> FALSE
        IN IF complete
           THEN lastSave.exc = None /\ Len(lastSave.executes) = 1
           ELSE /\ lastSave.bodyExc = "KeyError"
                /\ lastSave.exc = DatabaseError
                /\ lastSave.executes = <<>>
                /\ lastSave.events = <<Event("rollback", ParserConn, 1, TRUE)>>

\* a Civicsource record whose coordinates have no lon passed validate and
\* save raised
SavedWithoutLon ==
    /\ SavedRecord /\ vResult = True
    /\ vParser = "Civicsource"
    /\ DOMAIN vRecord.coordinates.v = {"lat"}
    /\ lastSave.exc = DatabaseError

----------------------------------------------------------------------------
(* parse after clean *)

Succeeded(result) == result.res \in {"record", "records"}

\* the buffers of a parser after parse(a); clean(), a an input the parser
\* returns a record for
CleanedAfterParse(kind) ==
    {clean(kind, parse(kind, NewAttrs(kind), a).attrs).attrs :
        a \in {x \in Inputs(kind) : Succeeded(parse(kind, NewAttrs(kind), x).result)}}

\* the session let the parse call through to the source
SessionPassed ==
    IsDeKalb =>
        refresh_session(call.sessionBefore, call.at, call.answers).result = "True"

\* parse(b) was called after parse(a); clean(), b an input a freshly
\* constructed parser returns a record for
ParsedAfterClean ==
    /\ call.op = "parse"
    /\ call.prevOp = "clean"
    /\ SessionPassed
    /\ Succeeded(parse(lParser, NewAttrs(lParser), call.input).result)
    /\ call.attrsBefore \in CleanedAfterParse(lParser)

\* C26: a parser is reusable after clean: in parse(a); clean(); parse(b)
\* with a and b valid inputs, the second parse returns the record a freshly
\* constructed parser returns for b.
C26_ReusableAfterClean ==
    ParsedAfterClean =>
        call.result = parse(lParser, NewAttrs(lParser), call.input).result

\* what does hold: the second parse returns the fresh parser's record
\* unless the parser is a Civicsource one whose table clean deleted and b
\* names a GIS layer only; then it raises DataFormatError
ReusableUnlessTableDeleted ==
    ParsedAfterClean =>
        IF /\ lParser \in {"Civicsource", "DeKalb"}
           /\ call.attrsBefore.data_frame = Deleted
           /\ Civicsource_source(call.input.v) = "gis_path"
        THEN call.result = DataFormatError
        ELSE call.result = parse(lParser, NewAttrs(lParser), call.input).result

\* a table was parsed and cleaned, and the parse of a GIS layer failed
GisAfterTableFailed ==
    /\ ParsedAfterClean
    /\ lParser = "Civicsource"
    /\ call.attrsBefore = [data_frame |-> Deleted, gis_data |-> None]
    /\ call.result = DataFormatError

----------------------------------------------------------------------------
(* a commit that raises in BaseParser.transaction *)

\* a BaseParser.transaction block was left whose body completed and whose
\* commit raised
CommitRaised ==
    /\ LeftTransaction
    /\ lastExit.bodyExc = None
    /\ Len(lastExit.events) >= 1
    /\ lastExit.events[1].op = "commit"
    /\ ~lastExit.events[1].ok

----------------------------------------------------------------------------
(* The token, its expiry and the Authorization header *)

TokenSet == auth_token # None
ExpirySet == token_expiry # NoneV

\* C28: whatever authenticate, refresh_session and parse calls were made and
\* whatever the server answered, auth_token is set exactly when token_expiry
\* is set, and whenever they are set the Authorization header of the session
\* is 'Bearer ' followed by the current auth_token.
C28_TokenExpiryHeaderAgree ==
    /\ TokenSet <=> ExpirySet
    /\ TokenSet => headers = Bearer(auth_token)

\* a call that failed left the token, the expiry and the header of an
\* earlier login in place
C28_Witness ==
    /\ IsDeKalb
    /\ call.op \in {"authenticate", "refresh_session", "parse"}
    /\ call.result \in {Raised(AuthenticationError), Raised("KeyError")}
    /\ TokenSet /\ ExpirySet
    /\ SessionNow = call.sessionBefore
    /\ headers = Bearer(auth_token)

\* refresh_session was called with a stored token whose expiry has not
\* passed
RefreshedUnexpired ==
    /\ IsDeKalb
    /\ call.op = "refresh_session"
    /\ ~NoToken(call.sessionBefore)
    /\ ~Expired(call.sessionBefore, call.at)

\* C29: refresh_session called while a token is stored and its expiry has
\* not passed sends no request, does not call authenticate, leaves
\* auth_token, token_expiry and the headers as they were and returns True.
C29_ValidTokenUntouched ==
    RefreshedUnexpired =>
        /\ call.requests = <<>>
        /\ call.trace = <<>>
        /\ call.authenticates = 0
        /\ SessionNow = call.sessionBefore
        /\ call.result = Raised("True")

\* refresh_session returned True for a token with time left, after time has
\* passed since the login
C29_Witness ==
    /\ RefreshedUnexpired
    /\ call.at > 0
    /\ call.at < call.sessionBefore.token_expiry.v
    /\ call.result = Raised("True")
    /\ auth_token = call.sessionBefore.auth_token

----------------------------------------------------------------------------
(* The statements of one GovEase record *)

\* save was handed a list of one PropertyData, by a parser with a connection
SavedOneProperty ==
    /\ SavedByGovEase
    /\ lastSave.conn # None
    /\ lastSave.n = 1

\* the INSERT of the property row and the INSERTs of its m image rows, in
\* list order
StatementsOf(m) ==
    <<Statement("properties", 1, 0, TRUE)>>
    \o [j \in 1..m |-> Statement("property_images", 1, j, TRUE)]

\* C30: the save of one GovEase PropertyData with m image URLs, every
\* statement accepted, executes exactly 1 + m INSERTs: the property row
\* first, then one property_images row per URL in list order; commit is
\* called once, after them, and it is never called when fewer than the
\* 1 + m statements were executed.
C30_PropertyThenImagesThenCommit ==
    SavedOneProperty =>
        LET m == lastSave.urls[1]
            ex == lastSave.executes
        IN /\ lastSave.failRec = 0 =>
                /\ ex = StatementsOf(m)
                /\ Len(ex) = 1 + m
                /\ CountOp(lastSave.events, "commit") = 1
                /\ lastSave.events[1].op = "commit"
           /\ CountOp(lastSave.events, "commit") >= 1 => ex = StatementsOf(m)
           /\ lastSave.failRec # 0 =>
                /\ Len(ex) <= 1 + m
                /\ \A j \in 1..Len(ex) :
                       ex[j] = [StatementsOf(m)[j] EXCEPT !.ok = (j # Len(ex))]
                /\ CountOp(lastSave.events, "commit") = 0

\* a record with two image URLs was saved: three INSERTs and the commit
C30_Witness ==
    /\ SavedOneProperty
    /\ lastSave.urls = <<2>>
    /\ lastSave.failRec = 0
    /\ Len(lastSave.executes) = 3
    /\ lastSave.events = <<Event("commit", lastSave.conn, lastExit.depth, TRUE)>>
    /\ lastSave.exc = None

====
